---- MODULE Spec2Model ----
\* A model of make-lite (cmd/make-lite): the variable store with its tier
\* policy, and the build engine (buildRecursive, checkFreshness,
\* executeRecipe) running over a small file system.
EXTENDS Integers, Sequences, FiniteSets, TLC

VARIABLES
    \* ---- variable store (variables.go) ----
    vs,          \* the VariableStore: [vars |-> map name -> varEntry, cachedEnv]
    osEnviron,   \* the process environment the store was built from
    written,     \* per name: the last `=`, the last load_env and the first `?=` value
    lineNo,      \* the number of assignment and .env lines processed so far
    lastSet,     \* the last Set call: its arguments and the entry it found
    \* ---- makefile and file system ----
    makefile,    \* the Makefile aggregate: [Rules, RuleMap]
    fs,          \* the file system: path -> [kind, mtime]
    clock,       \* the file system's clock: a write is stamped with it, or a later time
    \* ---- engine (engine.go) ----
    built,       \* Engine.built
    visiting,    \* Engine.visiting
    stack,       \* the active buildRecursive calls, innermost last
    status,      \* "idle", "running", "ok", or the error Build returned
    errTarget,   \* the target the returned error names
    \* ---- observations of the run ----
    ran,         \* the rules whose recipe was started (executeRecipe), in order
    launched,    \* the commands launched (exec.Command ... Run), in order
    checks,      \* the checkFreshness calls: rule, file system seen, verdict
    resolved,    \* the names whose buildRecursive call returned nil, in order
    finished,    \* the rules whose evaluation ended (ran or up to date), in order
    start,       \* the target Build was called with and the file system it found
    failSnap,    \* what the engine looked like when the first error arose
    after,       \* per evaluated rule: the file system when its evaluation ended
    \* ---- invocations of the program ----
    invocation,  \* 1 in the first run of make-lite, 2 in the one that follows it
    first,       \* what the first invocation did and left behind
    \* ---- parser (parser.go) ----
    texts,       \* the files that can be read: name -> lines
    parser,      \* the Parser and where ParseFile stands
    \* ---- observations of the expander and of standard output ----
    expansions,  \* the calls of Expand by the parser and the engine, in order
    evals,       \* the $(...) forms evaluated, in order
    events       \* what is echoed, launched and exited, in order

vars == <<vs, osEnviron, written, lineNo, lastSet, makefile, fs, clock, built, visiting,
          stack, status, errTarget, ran, launched, checks, resolved, finished,
          start, failSnap, after, invocation, first, texts, parser, expansions,
          evals, events>>

makeVars == <<texts, parser, expansions, evals, events>>
storeVars == <<vs, osEnviron, written, lineNo, lastSet>>
buildVars == <<makefile, fs, clock, built, visiting, stack, status, errTarget,
               ran, launched, checks, resolved, finished, start, failSnap,
               after, invocation, first>>

\* ---------------------------------------------------------------------
\* Bounds
\* ---------------------------------------------------------------------
\* Number of assignment / load_env lines processed in one parse.
MaxWrites == 3
\* Modification times of the files present before the build are 1..MaxTime.
MaxTime == 2

\* ---------------------------------------------------------------------
\* Variable store
\* ---------------------------------------------------------------------
\* varSource, the iota constants of variables.go.
sourceMakefileConditional == 0
sourceEnvFile == 1
sourceShellEnv == 2
sourceMakefileUnconditional == 3

Keys == {"FOO", "BAR"}
Values == {"u", "v"}

\* varEntry{value, source, originFile, originLine}
varEntry(value, source, originFile, originLine) ==
    [value |-> value, source |-> source,
     originFile |-> originFile, originLine |-> originLine]

\* NewVariableStore: one entry at tier ShellEnv per environment pair whose
\* name is not empty (parts[0] != ""). The environment is the map from the
\* names of its pairs NAME=value to their values.
NewVariableStore(environ) ==
    [vars |-> [k \in DOMAIN environ \ {""} |->
                  varEntry(environ[k], sourceShellEnv, "shell environment", 0)],
     cachedEnv |-> <<>>]

\* m[key] = e on a Go map.
MapPut(m, key, e) ==
    [k \in DOMAIN m \cup {key} |-> IF k = key THEN e ELSE m[k]]

\* A plausible slip in Set: the conditional branch falls through to the tier
\* comparison instead of returning.
SetNoEarlyReturn(store, key, value, source, originFile, originLine) ==
    LET exists == key \in DOMAIN store.vars
        entry == varEntry(value, source, originFile, originLine)
    IN  IF ~exists \/ source >= store.vars[key].source
        THEN [vars |-> MapPut(store.vars, key, entry), cachedEnv |-> <<>>]
        ELSE [vars |-> store.vars, cachedEnv |-> <<>>]

\* A plausible slip: a write of the same tier does not replace the entry.
SetStrictlyHigher(store, key, value, source, originFile, originLine) ==
    LET exists == key \in DOMAIN store.vars
        entry == varEntry(value, source, originFile, originLine)
        accepted ==
            IF source = sourceMakefileConditional
            THEN ~exists
            ELSE ~exists \/ source > store.vars[key].source
    IN  [vars |-> IF accepted THEN MapPut(store.vars, key, entry) ELSE store.vars,
         cachedEnv |-> <<>>]

\* A plausible slip: the tiers are not compared, the last write wins.
SetLastWriteWins(store, key, value, source, originFile, originLine) ==
    [vars |-> MapPut(store.vars, key, varEntry(value, source, originFile, originLine)),
     cachedEnv |-> <<>>]

\* A plausible slip: Set leaves the memoized environment as it is.
KeptCache(cachedEnv) == cachedEnv

\* Set, line 51: vs.cachedEnv = nil
Invalidated(cachedEnv) == <<>>

\* VariableStore.Set
Set(store, key, value, source, originFile, originLine) ==
    LET exists == key \in DOMAIN store.vars
        entry == varEntry(value, source, originFile, originLine)
        accepted ==
            IF source = sourceMakefileConditional
            THEN ~exists
            ELSE ~exists \/ source >= store.vars[key].source
    IN  [vars |-> IF accepted THEN MapPut(store.vars, key, entry) ELSE store.vars,
         cachedEnv |-> Invalidated(store.cachedEnv)]

\* VariableStore.Get: <<value, ok>>
Get(store, key) ==
    IF key \in DOMAIN store.vars
    THEN <<store.vars[key].value, TRUE>>
    ELSE <<"", FALSE>>

NoSet == [called |-> FALSE]

\* ---------------------------------------------------------------------
\* File system (what os.Stat, os.MkdirAll and the shell commands see)
\* ---------------------------------------------------------------------
\* A path is the sequence of its components: <<"d", "x">> is d/x.
AllPaths == {<<"a">>, <<"b">>, <<"c">>, <<"e">>, <<"d">>, <<"d", "x">>,
             <<"d", "s">>, <<"d", "s", "y">>}

Absent == [kind |-> "none", mtime |-> 0]
File(t) == [kind |-> "file", mtime |-> t]
Directory(t) == [kind |-> "dir", mtime |-> t]

\* The entry at p; a path the file system holds nothing for is absent.
Lookup(f, p) == IF p \in DOMAIN f THEN f[p] ELSE Absent

\* The file system with the entry at p replaced.
WriteEntry(f, p, entry) == [q \in DOMAIN f \cup {p} |-> IF q = p THEN entry ELSE f[q]]

\* The path without its last component; <<>> is the working directory.
Dir(p) == SubSeq(p, 1, Len(p) - 1)

\* The proper ancestors of p, the working directory excluded.
Ancestors(p) == {SubSeq(p, 1, k) : k \in 1..(Len(p) - 1)}

\* filepath.Clean of a relative path, from component k on (acc is the
\* clean path so far): empty components and "." are dropped, and ".."
\* takes the part before it with it, unless there is none.
RECURSIVE Clean(_, _, _)
Clean(p, k, acc) ==
    CASE k > Len(p) -> acc
      [] k <= Len(p) /\ p[k] \in {"", "."} -> Clean(p, k + 1, acc)
      [] k <= Len(p) /\ p[k] = ".." /\ acc # <<>> /\ acc[Len(acc)] # ".." ->
           Clean(p, k + 1, Dir(acc))
      [] OTHER -> Clean(p, k + 1, Append(acc, p[k]))

\* Whether the name p stays within the working directory: it is relative
\* and no ".." of it leads out. The model follows no other name.
Inside(p) == p[1] # "" /\ (Clean(p, 1, <<>>) = <<>> \/ Clean(p, 1, <<>>)[1] # "..")

\* The walk the kernel makes along the name p, from component k on, at
\* being where it stands (<<>> is the working directory): a component is
\* looked up in a directory only; an empty component and "." stay there
\* and ".." goes to the parent. err is "" when the walk ends, "ENOENT"
\* when it comes to something missing (the one error os.IsNotExist
\* accepts) or p is the empty name, "ENOTDIR" when it is to go on from a
\* regular file, and "outside" when it leaves the working directory.
RECURSIVE Resolve(_, _, _, _)
Resolve(f, p, k, at) ==
    CASE k > Len(p) -> [err |-> "", path |-> at]
      [] k = 1 /\ p = <<"">> -> [err |-> "ENOENT", path |-> at]
      [] k = 1 /\ p # <<"">> /\ p[1] = "" -> [err |-> "outside", path |-> at]
      [] k <= Len(p) /\ at # <<>> /\ Lookup(f, at).kind = "none" ->
           [err |-> "ENOENT", path |-> at]
      [] k <= Len(p) /\ at # <<>> /\ Lookup(f, at).kind = "file" ->
           [err |-> "ENOTDIR", path |-> at]
      [] k <= Len(p) /\ at = <<>> /\ p[k] = ".." /\ p[1] # "" ->
           [err |-> "outside", path |-> at]
      [] k <= Len(p) /\ at # <<>> /\ Lookup(f, at).kind = "dir" /\ p[k] = ".." ->
           Resolve(f, p, k + 1, Dir(at))
      [] k <= Len(p) /\ (at = <<>> \/ Lookup(f, at).kind = "dir")
            /\ p[k] \in {"", "."} /\ p[1] # "" ->
           Resolve(f, p, k + 1, at)
      [] OTHER -> Resolve(f, p, k + 1, Append(at, p[k]))

\* os.Stat(p): err as Resolve gives it, path what the name leads to. The
\* working directory is a directory whose modification time is not kept.
Stat(f, p) ==
    LET Found(r) ==
            IF r.err # "" THEN [err |-> r.err, isDir |-> FALSE, modTime |-> 0, path |-> r.path]
            ELSE IF r.path = <<>>
            THEN [err |-> "", isDir |-> TRUE, modTime |-> 0, path |-> r.path]
            ELSE IF Lookup(f, r.path).kind = "none"
            THEN [err |-> "ENOENT", isDir |-> FALSE, modTime |-> 0, path |-> r.path]
            ELSE [err |-> "", isDir |-> f[r.path].kind = "dir",
                  modTime |-> f[r.path].mtime, path |-> r.path]
    IN  Found(Resolve(f, p, 1, <<>>))

\* The clock of the file system as a handler finds it: t is the time of
\* the last write, ticks what the clock advances by before each of the
\* writes to come, in their order (0: the write falls in the same tick of
\* the clock as the one before it, 1: in a later one), and n the number of
\* writes made. A clock without ticks stands still: a handler is run on it
\* to count its writes.
Tick(now) ==
    [t |-> now.t + (IF now.ticks = <<>> THEN 0 ELSE Head(now.ticks)),
     ticks |-> IF now.ticks = <<>> THEN <<>> ELSE Tail(now.ticks),
     n |-> now.n + 1]

\* The clocks a handler that makes n writes may find when the last write
\* was at time t: every write may fall in a later tick than the one before.
Clocks(t, n) == {[t |-> t, ticks |-> s, n |-> 0] : s \in [1..n -> {0, 1}]}

\* Writing an entry into a directory stamps the directory.
Stamp(f, p, t) ==
    IF Len(p) = 0 THEN f ELSE WriteEntry(f, p, Directory(t))

\* A new directory at p, as mkdir makes it: the entry is made with the
\* time the clock has come to, and the directory it is entered into is
\* stamped after that, by a write of its own (the working directory's time
\* is not kept).
Create(f, p, kind, now) ==
    IF Len(p) = 1
    THEN [fs |-> WriteEntry(f, p, [kind |-> kind, mtime |-> Tick(now).t]), now |-> Tick(now)]
    ELSE [fs |-> Stamp(WriteEntry(f, p, [kind |-> kind, mtime |-> Tick(now).t]),
                       Dir(p), Tick(Tick(now)).t),
          now |-> Tick(Tick(now))]

\* os.MkdirAll(dir), from component k of dir on: every missing component
\* is created, the outer ones first, each by a write of its own; a
\* component that is a regular file makes it fail, and nothing is created
\* then.
RECURSIVE MkdirAll(_, _, _, _)
MkdirAll(f, dir, k, now) ==
    CASE k > Len(dir) -> [ok |-> TRUE, fs |-> f, now |-> now]
      [] k <= Len(dir) /\ Lookup(f, SubSeq(dir, 1, k)).kind = "dir" ->
           MkdirAll(f, dir, k + 1, now)
      [] k <= Len(dir) /\ Lookup(f, SubSeq(dir, 1, k)).kind = "file" ->
           [ok |-> FALSE, fs |-> f, now |-> now]
      [] OTHER ->
           MkdirAll(Create(f, SubSeq(dir, 1, k), "dir", now).fs, dir, k + 1,
                    Create(f, SubSeq(dir, 1, k), "dir", now).now)

\* ---------------------------------------------------------------------
\* Recipe commands: what sh -c does with the command lines of the model
\* ---------------------------------------------------------------------
\* A recipe line is [at, op, arg]: at is the leading '@', op one of "touch",
\* "rm" (rm -f), "true", "false", and "blank" for a whitespace-only line.
Line(op, arg) == [at |-> FALSE, op |-> op, arg |-> arg]
Touch(p) == Line("touch", p)
Rm(p) == Line("rm", p)
True == Line("true", <<>>)

\* sh -c "touch p": touch opens p, creating it when it is missing, and
\* then sets the times of p to the time the clock has come to. Creating
\* the file stamps the directory it is entered into; the time the new file
\* got with it is replaced when its times are set, by a write of its own,
\* so a new file is never older than its directory, and newer when the
\* clock ticks in between. It fails when the directory of p is not there.
ShTouch(f, p, now) ==
    IF Stat(f, p).err = ""
    THEN [exit |-> 0, fs |-> [f EXCEPT ![p].mtime = Tick(now).t], now |-> Tick(now)]
    ELSE IF Len(p) > 1 /\ ~Stat(f, Dir(p)).isDir
    THEN [exit |-> 1, fs |-> f, now |-> now]
    ELSE IF Len(p) = 1
    THEN [exit |-> 0, fs |-> WriteEntry(f, p, File(Tick(now).t)), now |-> Tick(now)]
    ELSE [exit |-> 0,
          fs |-> WriteEntry(Stamp(f, Dir(p), Tick(now).t), p, File(Tick(Tick(now)).t)),
          now |-> Tick(Tick(now))]

\* sh -c "rm -f p": removes a file, ignores a missing one, refuses a directory.
ShRm(f, p, now) ==
    IF Stat(f, p).err # "" THEN [exit |-> 0, fs |-> f, now |-> now]
    ELSE IF Stat(f, p).isDir THEN [exit |-> 1, fs |-> f, now |-> now]
    ELSE [exit |-> 0, fs |-> Stamp([f EXCEPT ![p] = Absent], Dir(p), Tick(now).t),
          now |-> Tick(now)]

\* ---------------------------------------------------------------------
\* Data model (types.go)
\* ---------------------------------------------------------------------
\* Rule{Targets, Sources, Recipe}
Rule(targets, sources, recipe) ==
    [Targets |-> targets, Sources |-> sources, Recipe |-> recipe]

\* NewMakefile
NewMakefile == [Rules |-> <<>>, RuleMap |-> <<>>]

Range(s) == {s[i] : i \in 1..Len(s)}

\* A plausible slip: a target that already has a rule keeps it.
AddRuleFirstWins(m, rule) ==
    LET n == Len(m.Rules) + 1
    IN  [Rules |-> Append(m.Rules, rule),
         RuleMap |-> [t \in DOMAIN m.RuleMap \cup Range(rule.Targets) |->
                         IF t \in DOMAIN m.RuleMap THEN m.RuleMap[t] ELSE n]]

\* Makefile.AddRule: the rule is appended and every one of its targets is
\* mapped to it (a rule is identified by its position in Rules).
AddRule(m, rule) ==
    LET n == Len(m.Rules) + 1
    IN  [Rules |-> Append(m.Rules, rule),
         RuleMap |-> [t \in DOMAIN m.RuleMap \cup Range(rule.Targets) |->
                         IF t \in Range(rule.Targets) THEN n ELSE m.RuleMap[t]]]

\* parseContent, pass 2: the rules are added in declaration order.
RECURSIVE AddRules(_, _)
AddRules(m, rules) ==
    IF rules = <<>> THEN m
    ELSE AddRules(AddRule(m, Head(rules)), Tail(rules))

\* ---------------------------------------------------------------------
\* Engine.checkFreshness (engine.go)
\* ---------------------------------------------------------------------
\* The zero time.Time; every modification time of the model is later.
ZeroTime == 0

\* What checkFreshness returns; named is the target that the text of the
\* error gives (<<>> when there is no error): the target whose stat failed,
\* the first target of the rule for a missing dependency, and for the stat
\* error of a source, which is returned as it is, the source.
Verdict(needsRun, reason, err, named) ==
    [needsRun |-> needsRun, reason |-> reason, err |-> err, named |-> named]

\* A plausible slip: the newest target is kept instead of the oldest.
KeepNewest(oldest, modTime) ==
    IF oldest = ZeroTime \/ modTime > oldest THEN modTime ELSE oldest

\* Lines 130-132: the running minimum of the targets' modification times.
KeepOldest(oldest, modTime) ==
    IF oldest = ZeroTime \/ modTime < oldest THEN modTime ELSE oldest

\* A plausible slip: a source of the same age counts as newer.
NotOlder(modTime, oldest) == modTime >= oldest

\* Line 160: info.ModTime().After(oldestTargetModTime)
After(modTime, oldest) == modTime > oldest

\* A plausible slip: a directory is taken for an ordinary file.
NeverDir(info) == FALSE

\* Line 126: info.IsDir()
IsDir(info) == info.isDir

\* The loop over rule.Targets (lines 117-133), from target k on: it ends by
\* returning (ret "stale" or "error"), by the break of a directory (phony),
\* or by running out of targets; at is the target it ended at.
RECURSIVE ScanTargets(_, _, _, _)
ScanTargets(rule, f, k, oldest) ==
    IF k > Len(rule.Targets)
    THEN [ret |-> "", isPhony |-> FALSE, oldest |-> oldest, at |-> k]
    ELSE LET info == Stat(f, rule.Targets[k])
         IN  IF info.err = "ENOENT"
             THEN [ret |-> "stale", isPhony |-> FALSE, oldest |-> oldest, at |-> k]
             ELSE IF info.err # ""
             THEN [ret |-> "error", isPhony |-> FALSE, oldest |-> oldest, at |-> k]
             ELSE IF IsDir(info)
             THEN [ret |-> "", isPhony |-> TRUE, oldest |-> oldest, at |-> k]
             ELSE ScanTargets(rule, f, k + 1, KeepOldest(oldest, info.modTime))

\* A plausible slip: a missing source is fatal even when a rule makes it.
NoRuleKnown(ruleMap, sourceName) == FALSE

\* Line 150: _, isTarget := e.makefile.RuleMap[sourceName]
HasRule(ruleMap, sourceName) == sourceName \in DOMAIN ruleMap

\* The loop over rule.Sources (lines 143-163), from source k on.
RECURSIVE ScanSources(_, _, _, _, _)
ScanSources(rule, f, ruleMap, k, oldest) ==
    IF k > Len(rule.Sources)
    THEN Verdict(FALSE, "", "", <<>>)
    ELSE LET info == Stat(f, rule.Sources[k])
         IN  IF info.err = "ENOENT"
             THEN IF HasRule(ruleMap, rule.Sources[k])
                  THEN ScanSources(rule, f, ruleMap, k + 1, oldest)
                  ELSE Verdict(FALSE, "", "missing dependency", rule.Targets[1])
             ELSE IF info.err # ""
             THEN Verdict(FALSE, "", "stat source", rule.Sources[k])
             ELSE IF After(info.modTime, oldest)
             THEN Verdict(TRUE, "source is newer", "", <<>>)
             ELSE ScanSources(rule, f, ruleMap, k + 1, oldest)

\* Engine.checkFreshness(rule): needsRun, reason, err.
checkFreshness(rule, f, ruleMap) ==
    IF Len(rule.Targets) = 0
    THEN Verdict(TRUE, "it has no targets", "", <<>>)
    ELSE LET t == ScanTargets(rule, f, 1, ZeroTime)
         IN  IF t.ret = "stale" THEN Verdict(TRUE, "", "", <<>>)
             ELSE IF t.ret = "error" THEN Verdict(FALSE, "", "stat target", rule.Targets[t.at])
             ELSE IF t.isPhony \/ (Len(rule.Sources) = 0 /\ t.oldest = ZeroTime)
             THEN Verdict(TRUE, "it is a symbolic target", "", <<>>)
             ELSE IF Len(rule.Sources) = 0
             THEN Verdict(FALSE, "", "", <<>>)
             ELSE ScanSources(rule, f, ruleMap, 1, t.oldest)

\* ---------------------------------------------------------------------
\* Engine.executeRecipe, first loop (lines 170-178)
\* ---------------------------------------------------------------------
\* A plausible slip: the directories are not created.
SkipDirs(f, targets, k, now) == [ok |-> TRUE, fs |-> f, now |-> now]

\* Lines 171-177, from target k on: os.MkdirAll of filepath.Dir of every
\* target, in order, unless that is "." (or "/"); the first failure
\* returns. filepath.Dir is the name up to its last slash, cleaned.
RECURSIVE MakeDirs(_, _, _, _)
MakeDirs(f, targets, k, now) ==
    CASE k > Len(targets) -> [ok |-> TRUE, fs |-> f, now |-> now]
      [] k <= Len(targets) /\ ~Inside(targets[k]) -> MakeDirs(f, targets, k + 1, now)
      [] k <= Len(targets) /\ Inside(targets[k])
            /\ ~MkdirAll(f, Clean(Dir(targets[k]), 1, <<>>), 1, now).ok ->
           [ok |-> FALSE, fs |-> f, now |-> now]
      [] OTHER ->
           MakeDirs(MkdirAll(f, Clean(Dir(targets[k]), 1, <<>>), 1, now).fs, targets, k + 1,
                    MkdirAll(f, Clean(Dir(targets[k]), 1, <<>>), 1, now).now)

\* ---------------------------------------------------------------------
\* Strings (package strings, as far as the parser and the expander use it)
\* ---------------------------------------------------------------------
\* s[i] as a string of one character; "" past the end of s.
At(s, i) == IF i >= 1 /\ i <= Len(s) THEN SubSeq(s, i, i) ELSE ""

\* s[i:] with the model's positions 1..Len(s).
From(s, i) == SubSeq(s, i, Len(s))

\* s[:i], the characters before position i.
Upto(s, i) == SubSeq(s, 1, i - 1)

\* unicode.IsSpace, which strings.TrimSpace and strings.Fields go by, for
\* the characters a string of the model can hold (those up to U+00FF):
\* space, tab, newline, carriage return, form feed, vertical tab (U+000B),
\* next line (U+0085) and no-break space (U+00A0), in this order.
WhiteSpace == {" ", "\t", "\n", "\r", "\f", "", "", " "}

HasPrefix(s, p) == Len(s) >= Len(p) /\ SubSeq(s, 1, Len(p)) = p
HasSuffix(s, p) == Len(s) >= Len(p) /\ SubSeq(s, Len(s) - Len(p) + 1, Len(s)) = p

\* The first position at or after i of s whose character is one of chars
\* (within) or none of them (~within), Len(s) + 1 when there is none.
First(s, i, chars, within) ==
    LET Least(stops) == CHOOSE j \in stops : \A k \in stops : j <= k
    IN  Least({j \in i..Len(s) : (At(s, j) \in chars) = within} \cup {Len(s) + 1})

\* strings.TrimLeft(s, cutset) and strings.TrimRight(s, cutset)
RECURSIVE TrimLeft(_, _)
TrimLeft(s, cutset) ==
    IF Len(s) > 0 /\ At(s, 1) \in cutset THEN TrimLeft(From(s, 2), cutset) ELSE s

RECURSIVE TrimRight(_, _)
TrimRight(s, cutset) ==
    IF Len(s) > 0 /\ At(s, Len(s)) \in cutset
    THEN TrimRight(Upto(s, Len(s)), cutset)
    ELSE s

\* strings.TrimSpace
TrimSpace(s) == TrimLeft(TrimRight(s, WhiteSpace), WhiteSpace)

\* strings.Index(s, sub) for a one-character sub: the position of its first
\* occurrence at or after position i, 0 when there is none.
IndexFrom(s, ch, i) ==
    IF \E j \in i..Len(s) : At(s, j) = ch THEN First(s, i, {ch}, TRUE) ELSE 0

Index(s, ch) == IndexFrom(s, ch, 1)

Contains(s, ch) == \E j \in 1..Len(s) : At(s, j) = ch

\* strings.Fields: the maximal runs of characters that are not white space.
RECURSIVE FieldsFrom(_, _, _)
FieldsFrom(s, i, acc) ==
    LET begin == First(s, i, WhiteSpace, FALSE)
        end == First(s, begin, WhiteSpace, TRUE)
    IN  IF begin > Len(s) THEN acc
        ELSE FieldsFrom(s, end, Append(acc, SubSeq(s, begin, end - 1)))

Fields(s) == FieldsFrom(s, 1, <<>>)

\* strings.SplitN(s, sep, 2) for a one-character sep.
SplitN2(s, sep) ==
    LET k == Index(s, sep)
    IN  IF k = 0 THEN <<s>> ELSE <<Upto(s, k), From(s, k + 1)>>

\* strings.Join(words, sep)
RECURSIVE Join(_, _)
Join(words, sep) ==
    IF words = <<>> THEN ""
    ELSE IF Len(words) = 1 THEN words[1]
    ELSE words[1] \o sep \o Join(Tail(words), sep)

\* trimQuotes (utils.go): one pair of matching quotes is stripped.
trimQuotes(s) ==
    IF Len(s) >= 2 /\ At(s, 1) = "\"" /\ At(s, Len(s)) = "\"" THEN SubSeq(s, 2, Len(s) - 1)
    ELSE IF Len(s) >= 2 /\ At(s, 1) = "'" /\ At(s, Len(s)) = "'" THEN SubSeq(s, 2, Len(s) - 1)
    ELSE s

\* splitOnUnescaped (parser.go): <<left, right, found>> at the first
\* occurrence of sep that no backslash protects.
\* From position i on, where no backslash protects the character at i: the
\* characters that are neither a backslash nor sep are passed over, and a
\* backslash with the character it protects.
RECURSIVE SplitScan(_, _, _)
SplitScan(s, sep, i) ==
    LET j == First(s, i, {"\\", sep}, TRUE)
    IN  IF j > Len(s) THEN <<s, "", FALSE>>
        ELSE IF At(s, j) = "\\" THEN SplitScan(s, sep, j + 2)
        ELSE <<Upto(s, j), From(s, j + 1), TRUE>>

splitOnUnescaped(s, sep) == SplitScan(s, sep, 1)

\* ---------------------------------------------------------------------
\* The shell: what `sh -c command` does (runShellCmd, executeRecipe)
\* ---------------------------------------------------------------------
\* The shell is the system's sh (dash). Modelled: words with single quotes,
\* double quotes and backslashes; $NAME and ${NAME} taken from the
\* environment the command is given, with field splitting when unquoted;
\* comments; commands separated by ';' and newlines and joined by && and ||;
\* if / then / elif / else / fi; the commands echo, ls, touch, rm, true,
\* false, ':', test and '['. A command line is parsed whole before any of
\* it runs, and a syntax error ends the shell with status 2. Everything
\* else (pipes, redirections, sub-shells, command substitution, patterns,
\* assignments, loops, other utilities, options not named here) is outside
\* the model: the result carries the status Unmodelled, and the
\* specifications never hand such a command to the shell
\* (OnlyModelledCommands).
Unmodelled == -1

\* The name of a file as the sequence of its components: "d/x" is <<"d", "x">>.
PathOf(s) ==
    LET RECURSIVE PathFrom(_, _)
        PathFrom(i, acc) ==
            LET slash == First(s, i, {"/"}, TRUE)
            IN  IF slash > Len(s) THEN Append(acc, From(s, i))
                ELSE PathFrom(slash + 1, Append(acc, SubSeq(s, i, slash - 1)))
    IN  PathFrom(1, <<>>)

\* ls of a directory whose output is not a terminal: one line per entry,
\* the entries that exist there without the names that begin with a dot, in
\* the order of their bytes (the C locale).
Listing(f, dir) ==
    LET \* The printable characters in the order of their codes (a string of
        \* the model cannot hold a backquote).
        Ascii ==
            " !\"#$%&'()*+,-./0123456789:;<=>?@ABCDEFGHIJKLMNOPQRSTUVWXYZ[\\]^_abcdefghijklmnopqrstuvwxyz{|}~"
        Code(ch) == Index(Ascii, ch)
        \* Whether name s sorts before name t, byte by byte from position i on.
        RECURSIVE Before(_, _, _)
        Before(s, t, i) ==
            IF i > Len(s) THEN i <= Len(t)
            ELSE IF i > Len(t) THEN FALSE
            ELSE IF At(s, i) = At(t, i) THEN Before(s, t, i + 1)
            ELSE Code(At(s, i)) < Code(At(t, i))
        RECURSIVE Sorted(_)
        Sorted(names) ==
            IF names = {} THEN <<>>
            ELSE LET least == CHOOSE x \in names : \A y \in names \ {x} : Before(x, y, 1)
                 IN  <<least>> \o Sorted(names \ {least})
        Shown ==
            {name \in {p[Len(p)] : p \in {q \in DOMAIN f : /\ Len(q) = Len(dir) + 1
                                                          /\ Dir(q) = dir
                                                          /\ f[q].kind # "none"}} :
                At(name, 1) # "."}
        RECURSIVE OnePerLine(_)
        OnePerLine(names) ==
            IF names = <<>> THEN "" ELSE Head(names) \o "\n" \o OnePerLine(Tail(names))
    IN  OnePerLine(Sorted(Shown))

\* What a command leaves: its exit status, what it wrote to standard output,
\* the file system and the clock.
ShResult(exit, out, f, now) == [exit |-> exit, out |-> out, fs |-> f, now |-> now]

\* Whether the token at i is the reserved word: a word with nothing in it
\* quoted or expanded.
Reserved(toks, i, word) ==
    i <= Len(toks) /\ toks[i].kind = "word" /\ toks[i].plain /\ toks[i].text = word

\* The tokens of command s, with $NAME and ${NAME} taken from env. A token
\* is a word (plain when nothing in it was quoted or expanded), a word whose
\* expansions left no field ("none": it stands where a word must stand and
\* gives the command no argument), an operator, or the mark of a syntax
\* error or of a form outside the model.
Lex(s, env) ==
    LET ShWord(text, plain) == [kind |-> "word", text |-> text, plain |-> plain]
        ShOp(text) == [kind |-> "op", text |-> text, plain |-> FALSE]
        ShBad(kind) == [kind |-> kind, text |-> "", plain |-> FALSE]
        NameStart(ch) == Contains("ABCDEFGHIJKLMNOPQRSTUVWXYZ_abcdefghijklmnopqrstuvwxyz", ch)
        \* The variables the shell gives a value of its own.
        SetByShell ==
            {"IFS", "OPTIND", "OPTARG", "PATH", "PPID", "PS1", "PS2", "PS4", "PWD", "OLDPWD",
             "LINENO", "SHLVL", "_", "RANDOM", "SECONDS", "UID", "EUID", "HOSTNAME", "BASH"}
        NameChar(ch) == NameStart(ch) \/ Contains("0123456789", ch)
        \* The position after the name that begins at position i of text.
        NameEnd(text, i) ==
            First(text, i, {c \in {At(text, k) : k \in i..Len(text)} : NameChar(c)}, FALSE)
        \* The scanner st: the quoting mode, the field in progress (has:
        \* there is one, possibly empty), whether the word being read had
        \* an unquoted expansion (exp) and has given a field (out), and the
        \* tokens so far.
        FlushField(st) ==
            IF st.has
            THEN [st EXCEPT !.toks = Append(@, ShWord(st.cur, st.plain)),
                            !.cur = "", !.has = FALSE, !.out = TRUE]
            ELSE st
        \* The end of a word: its last field, or the mark of a word that
        \* expanded to nothing.
        Flush(st) ==
            IF st.has
            THEN [FlushField(st) EXCEPT !.exp = FALSE, !.out = FALSE, !.plain = TRUE]
            ELSE IF st.exp /\ ~st.out
            THEN [st EXCEPT !.toks = Append(@, ShBad("none")), !.exp = FALSE, !.plain = TRUE]
            ELSE [st EXCEPT !.exp = FALSE, !.out = FALSE, !.plain = TRUE]
        Emit(st, tok) == [Flush(st) EXCEPT !.toks = Append(@, tok)]
        Add(st, text, literal) ==
            [st EXCEPT !.cur = @ \o text, !.has = TRUE, !.plain = @ /\ literal]
        Quoting(st, mode) == [st EXCEPT !.mode = mode, !.has = TRUE, !.plain = FALSE]
        Halt(st, kind) == Append(Flush(st).toks, ShBad(kind))
        \* Whether a command begins where the scanner stands.
        CommandStart(st) ==
            /\ ~st.has
            /\ \/ st.toks = <<>>
               \/ st.toks[Len(st.toks)].kind = "op"
               \/ /\ st.toks[Len(st.toks)].kind = "word"
                  /\ st.toks[Len(st.toks)].plain
                  /\ st.toks[Len(st.toks)].text \in {"if", "then", "else", "elif"}
        \* The value of an unquoted expansion is split into fields at white
        \* space.
        RECURSIVE SplitValue(_, _, _)
        SplitValue(st, value, k) ==
            IF k > Len(value) THEN st
            ELSE IF At(value, k) \in {" ", "\t", "\n"}
            THEN SplitValue(FlushField(st), value,
                            First(value, k, {" ", "\t", "\n"}, FALSE))
            ELSE SplitValue(Add(st, SubSeq(value, k,
                                    First(value, k, {" ", "\t", "\n"}, TRUE) - 1),
                                FALSE),
                            value, First(value, k, {" ", "\t", "\n"}, TRUE))
        \* The '$' at position i: $NAME or ${NAME} (the value in env, empty
        \* when there is none), a '$' that stands for itself, or a form
        \* outside the model.
        Dollar(i) ==
            LET nx == At(s, i + 1)
                close == IndexFrom(s, "}", i + 2)
                Value(name) == IF name \in DOMAIN env THEN env[name] ELSE ""
                \* A variable the shell sets itself has a value the model
                \* does not follow.
                Taken(name, next) ==
                    IF name \in SetByShell THEN [kind |-> "unmodelled", text |-> "", next |-> next]
                    ELSE [kind |-> "value", text |-> Value(name), next |-> next]
            IN  IF nx = "{"
                THEN IF NameStart(At(s, i + 2)) /\ NameEnd(s, i + 2) = close
                     THEN Taken(SubSeq(s, i + 2, close - 1), close + 1)
                     ELSE [kind |-> "unmodelled", text |-> "", next |-> i + 1]
                ELSE IF NameStart(nx)
                THEN Taken(SubSeq(s, i + 1, NameEnd(s, i + 1) - 1), NameEnd(s, i + 1))
                ELSE IF Contains("0123456789?$!#@*-(", nx)
                THEN [kind |-> "unmodelled", text |-> "", next |-> i + 1]
                ELSE [kind |-> "literal", text |-> "$", next |-> i + 1]
        \* The characters that end a run of ordinary characters outside
        \* quotes and inside double quotes.
        PlainStops == " \t\n;&|<>*?()\\'\"$#[~"
        DoubleStops == "\"\\$"
        \* The position after the run of characters outside stops that
        \* begins at i.
        RunEnd(i, stops) == First(s, i, {At(stops, k) : k \in 1..Len(stops)}, TRUE)
        \* Outside quotes blanks end the word in progress: the position
        \* after the blanks at j, and the scanner to there.
        Blanks(j) == First(s, j, {" ", "\t"}, FALSE)
        Ended(j, st) == IF At(s, j) \in {" ", "\t"} THEN Flush(st) ELSE st
        \* Whether the scanner is at a character of chars in the mode.
        Plain(i, st, chars) == i <= Len(s) /\ st.mode = "plain" /\ At(s, i) \in chars
        Double(i, st, chars) == i <= Len(s) /\ st.mode = "double" /\ At(s, i) \in chars
        \* The tokens from position i on.
        RECURSIVE Scan(_, _)
        Scan(i, st) ==
            CASE i > Len(s) ->
                   IF st.mode = "plain" THEN Flush(st).toks ELSE Halt(st, "syntax")
              [] i <= Len(s) /\ st.mode = "plain" /\ ~Contains(PlainStops, At(s, i)) ->
                   Scan(Blanks(RunEnd(i, PlainStops)),
                        Ended(RunEnd(i, PlainStops),
                              Add(st, SubSeq(s, i, RunEnd(i, PlainStops) - 1), TRUE)))
              [] Plain(i, st, {" ", "\t"}) -> Scan(Blanks(i), Flush(st))
              [] Plain(i, st, {"\n", ";"}) ->
                   Scan(Blanks(i + 1), Ended(i + 1, Emit(st, ShOp(At(s, i)))))
              [] Plain(i, st, {"'"}) -> Scan(i + 1, Quoting(st, "single"))
              [] Plain(i, st, {"\""}) -> Scan(i + 1, Quoting(st, "double"))
              [] Plain(i, st, {"\\"}) ->
                   IF i = Len(s) THEN Scan(i + 1, Add(st, "\\", FALSE))
                   ELSE IF At(s, i + 1) = "\n" THEN Scan(Blanks(i + 2), Ended(i + 2, st))
                   ELSE Scan(Blanks(i + 2), Ended(i + 2, Add(st, At(s, i + 1), FALSE)))
              [] Plain(i, st, {"$"}) ->
                   IF Dollar(i).kind = "unmodelled" THEN Halt(st, "unmodelled")
                   ELSE IF Dollar(i).kind = "literal"
                   THEN Scan(Blanks(i + 1), Ended(i + 1, Add(st, "$", FALSE)))
                   ELSE IF \E k \in 1..Len(Dollar(i).text) :
                               At(Dollar(i).text, k) \in {"*", "?", "["}
                   THEN Halt(st, "unmodelled")
                   ELSE Scan(Blanks(Dollar(i).next),
                             Ended(Dollar(i).next,
                                   SplitValue([st EXCEPT !.exp = TRUE, !.plain = FALSE],
                                              Dollar(i).text, 1)))
              [] Plain(i, st, {"&", "|"}) ->
                   IF At(s, i + 1) = At(s, i)
                   THEN Scan(Blanks(i + 2),
                             Ended(i + 2, Emit(st, ShOp(At(s, i) \o At(s, i)))))
                   ELSE Halt(st, "unmodelled")
              [] Plain(i, st, {"("}) ->
                   IF At(s, i + 1) = ")" \/ CommandStart(st) THEN Halt(st, "unmodelled")
                   ELSE Scan(Blanks(i + 1), Ended(i + 1, Emit(st, ShBad("syntax"))))
              [] Plain(i, st, {")"}) ->
                   Scan(Blanks(i + 1), Ended(i + 1, Emit(st, ShBad("syntax"))))
              \* '#' begins a comment where a word may begin
              [] Plain(i, st, {"#"}) ->
                   IF st.has \/ At(s, i - 1) \notin {"", " ", "\t", "\n", ";", "&", "|", "(", ")"}
                   THEN Scan(Blanks(i + 1), Ended(i + 1, Add(st, "#", TRUE)))
                   ELSE IF IndexFrom(s, "\n", i) = 0 THEN Flush(st).toks
                   ELSE Scan(IndexFrom(s, "\n", i), st)
              [] Plain(i, st, {"["}) ->
                   IF ~st.has /\ At(s, i + 1) \in {" ", "\t", "\n", ";", ""}
                   THEN Scan(Blanks(i + 1), Ended(i + 1, Add(st, "[", TRUE)))
                   ELSE Halt(st, "unmodelled")
              [] Plain(i, st, {"~"}) ->
                   IF st.has THEN Scan(Blanks(i + 1), Ended(i + 1, Add(st, "~", TRUE)))
                   ELSE Halt(st, "unmodelled")
              [] Plain(i, st, {"<", ">", "*", "?"}) -> Halt(st, "unmodelled")
              [] i <= Len(s) /\ st.mode = "single" ->
                   IF IndexFrom(s, "'", i) = 0 THEN Halt(st, "syntax")
                   ELSE Scan(Blanks(IndexFrom(s, "'", i) + 1),
                             Ended(IndexFrom(s, "'", i) + 1,
                                   [Add(st, SubSeq(s, i, IndexFrom(s, "'", i) - 1), FALSE)
                                       EXCEPT !.mode = "plain"]))
              [] i <= Len(s) /\ st.mode = "double" /\ ~Contains(DoubleStops, At(s, i)) ->
                   Scan(RunEnd(i, DoubleStops),
                        Add(st, SubSeq(s, i, RunEnd(i, DoubleStops) - 1), FALSE))
              [] Double(i, st, {"\""}) ->
                   Scan(Blanks(i + 1), Ended(i + 1, [st EXCEPT !.mode = "plain"]))
              [] Double(i, st, {"\\"}) ->
                   IF At(s, i + 1) \in {"$", "\"", "\\"}
                   THEN Scan(i + 2, Add(st, At(s, i + 1), FALSE))
                   ELSE IF At(s, i + 1) = "\n" THEN Scan(i + 2, st)
                   ELSE Scan(i + 1, Add(st, "\\", FALSE))
              [] Double(i, st, {"$"}) ->
                   IF Dollar(i).kind = "unmodelled" THEN Halt(st, "unmodelled")
                   ELSE Scan(Dollar(i).next, Add(st, Dollar(i).text, FALSE))
        \* A word NAME=... where a command begins is an assignment.
        IsAssignment(word) == NameStart(At(word, 1)) /\ At(word, NameEnd(word, 1)) = "="
        \* Whether the token at position at is a form outside the model.
        NotModelledAt(toks, at) ==
            \/ toks[at].kind = "unmodelled"
            \/ /\ toks[at].kind = "word"
               /\ \/ at = 1
                  \/ toks[at - 1].kind = "op"
                  \/ \E w \in {"if", "then", "else", "elif"} : Reserved(toks, at - 1, w)
               /\ \/ \E w \in {"for", "while", "until", "case", "do", "done", "esac",
                               "{", "}", "!"} : Reserved(toks, at, w)
                  \/ IsAssignment(toks[at].text)
        \* A command with such a form anywhere is outside the model as a whole.
        Marked(toks) ==
            IF \E at \in 1..Len(toks) : NotModelledAt(toks, at)
            THEN <<ShBad("unmodelled")>>
            ELSE toks
    IN  Marked(Scan(1, [mode |-> "plain", cur |-> "", has |-> FALSE, plain |-> TRUE,
                        exp |-> FALSE, out |-> FALSE, toks |-> <<>>]))

\* One line of a command, parsed from the token at position at on: a list
\* of and-or lists of commands, the position after it, and the error
\* ("syntax", or "unmodelled" for a command outside the model).
ShParse(toks, at) ==
    LET IsOp(i, text) == i <= Len(toks) /\ toks[i].kind = "op" /\ toks[i].text = text
        SimpleCommand(words) ==
            [kind |-> "simple", words |-> words, cond |-> <<>>, body |-> <<>>, orelse |-> <<>>]
        IfCommand(cond, body, orelse) ==
            [kind |-> "if", words |-> <<>>, cond |-> cond, body |-> body, orelse |-> orelse]
        ShParsed(ast, next, err) == [ast |-> ast, next |-> next, err |-> err]
        SyntaxError(next) == ShParsed(<<>>, next, "syntax")
        RECURSIVE SkipNewlines(_)
        SkipNewlines(i) == IF IsOp(i, "\n") THEN SkipNewlines(i + 1) ELSE i
        IsWord(i) == i <= Len(toks) /\ toks[i].kind \in {"word", "none"}
        RECURSIVE WordsEnd(_)
        WordsEnd(i) == IF IsWord(i) THEN WordsEnd(i + 1) ELSE i
        \* The fields of the words from i up to position end.
        RECURSIVE WordsFrom(_, _, _)
        WordsFrom(i, end, acc) ==
            IF i >= end THEN acc
            ELSE IF toks[i].kind = "none" THEN WordsFrom(i + 1, end, acc)
            ELSE WordsFrom(i + 1, end, Append(acc, toks[i].text))
        RECURSIVE ParseItems(_, _, _)
        RECURSIVE ParseAndOr(_, _)
        RECURSIVE ParseCommand(_)
        RECURSIVE ParseIf(_)
        \* A list of and-or lists separated by ';' (and by newlines inside
        \* if): at the top it ends with the line, inside if with then, else,
        \* elif or fi, where it may not be empty.
        ParseItems(from, top, items) ==
            LET i == IF top THEN from ELSE SkipNewlines(from)
                Then(r) ==
                    IF r.err # "" THEN ShParsed(items, r.next, r.err)
                    ELSE IF IsOp(r.next, ";")
                    THEN ParseItems(r.next + 1, top, Append(items, r.ast))
                    ELSE IF IsOp(r.next, "\n") /\ ~top
                    THEN ParseItems(r.next + 1, top, Append(items, r.ast))
                    ELSE IF IsOp(r.next, "\n") \/ r.next > Len(toks)
                    THEN ShParsed(Append(items, r.ast), r.next, "")
                    \* after fi the word that ends the list may follow at once
                    ELSE IF ~top /\ \E w \in {"then", "else", "elif", "fi"} :
                                       Reserved(toks, r.next, w)
                    THEN ShParsed(Append(items, r.ast), r.next, "")
                    ELSE SyntaxError(r.next)
            IN  IF \/ i > Len(toks)
                   \/ top /\ IsOp(i, "\n")
                   \/ ~top /\ \E w \in {"then", "else", "elif", "fi"} : Reserved(toks, i, w)
                THEN ShParsed(items, i, IF ~top /\ items = <<>> THEN "syntax" ELSE "")
                ELSE Then(ParseAndOr(i, <<>>))
        \* Commands joined by && and ||; parts holds the ones already parsed.
        ParseAndOr(i, parts) ==
            LET Joined(conn, r) ==
                    IF r.err # "" THEN ShParsed(parts, r.next, r.err)
                    ELSE ParseAndOr(r.next, Append(parts, [conn |-> conn, cmd |-> r.ast]))
            IN  IF parts = <<>> THEN Joined("", ParseCommand(i))
                ELSE IF IsOp(i, "&&") \/ IsOp(i, "||")
                THEN Joined(toks[i].text, ParseCommand(SkipNewlines(i + 1)))
                ELSE ShParsed(parts, i, "")
        \* One command: if ... fi, or the words of a simple command.
        ParseCommand(i) ==
            IF i <= Len(toks) /\ toks[i].kind = "unmodelled" THEN ShParsed(<<>>, i, "unmodelled")
            ELSE IF ~IsWord(i) THEN SyntaxError(i)
            ELSE IF Reserved(toks, i, "if") THEN ParseIf(i)
            ELSE IF \E w \in {"then", "else", "elif", "fi"} : Reserved(toks, i, w)
            THEN SyntaxError(i)
            ELSE ShParsed(SimpleCommand(WordsFrom(i, WordsEnd(i), <<>>)), WordsEnd(i), "")
        \* if (or elif) at position i, up to the fi that closes it.
        ParseIf(i) ==
            LET Else(cn, bd, el) ==
                    IF el.err # "" THEN ShParsed(<<>>, el.next, el.err)
                    ELSE IF Reserved(toks, el.next, "fi")
                    THEN ShParsed(IfCommand(cn.ast, bd.ast, el.ast), el.next + 1, "")
                    ELSE SyntaxError(el.next)
                Elif(cn, bd, el) ==
                    IF el.err # "" THEN ShParsed(<<>>, el.next, el.err)
                    ELSE ShParsed(IfCommand(cn.ast, bd.ast,
                                            << <<[conn |-> "", cmd |-> el.ast]>> >>),
                                  el.next, "")
                Body(cn, bd) ==
                    IF bd.err # "" THEN ShParsed(<<>>, bd.next, bd.err)
                    ELSE IF Reserved(toks, bd.next, "fi")
                    THEN ShParsed(IfCommand(cn.ast, bd.ast, <<>>), bd.next + 1, "")
                    ELSE IF Reserved(toks, bd.next, "else")
                    THEN Else(cn, bd, ParseItems(bd.next + 1, FALSE, <<>>))
                    ELSE IF Reserved(toks, bd.next, "elif")
                    THEN Elif(cn, bd, ParseIf(bd.next))
                    ELSE SyntaxError(bd.next)
                Cond(cn) ==
                    IF cn.err # "" THEN ShParsed(<<>>, cn.next, cn.err)
                    ELSE IF Reserved(toks, cn.next, "then")
                    THEN Body(cn, ParseItems(cn.next + 1, FALSE, <<>>))
                    ELSE SyntaxError(cn.next)
            IN  Cond(ParseItems(i + 1, FALSE, <<>>))
    IN  ParseItems(at, TRUE, <<>>)

\* A simple command with the words w: a utility of the model (echo, ls,
\* touch, rm, true, false, ':', test, '['), a name that may be a command
\* outside it, or a word taken to name no command (status 127).
Utility(w, f, now) ==
    LET args == Tail(w)
        force == args # <<>> /\ args[1] = "-f"
        names == IF force THEN Tail(args) ELSE args
        \* A file name the model follows: relative, without empty, "." or
        \* ".." components, and not an option.
        ShPath(arg) ==
            /\ arg # ""
            /\ At(arg, 1) # "-"
            /\ \A k \in 1..Len(PathOf(arg)) : PathOf(arg)[k] \notin {"", ".", ".."}
        \* echo: the escape sequences of its arguments.
        RECURSIVE EchoText(_, _)
        EchoText(s, i) ==
            IF IndexFrom(s, "\\", i) = 0 THEN From(s, i)
            ELSE IF At(s, i) # "\\"
            THEN SubSeq(s, i, IndexFrom(s, "\\", i) - 1) \o EchoText(s, IndexFrom(s, "\\", i))
            ELSE IF At(s, i + 1) = "\\" THEN "\\" \o EchoText(s, i + 2)
            ELSE IF At(s, i + 1) = "n" THEN "\n" \o EchoText(s, i + 2)
            ELSE IF At(s, i + 1) = "t" THEN "\t" \o EchoText(s, i + 2)
            ELSE IF At(s, i + 1) = "r" THEN "\r" \o EchoText(s, i + 2)
            ELSE "\\" \o EchoText(s, i + 1)
        \* The escape sequences \a \b \c \e \f \v and the octal ones are outside
        \* the model.
        RECURSIVE EchoModelled(_, _)
        EchoModelled(s, i) ==
            IF IndexFrom(s, "\\", i) = 0 THEN TRUE
            ELSE IF At(s, i) # "\\" THEN EchoModelled(s, IndexFrom(s, "\\", i))
            ELSE IF At(s, i + 1) \in {"a", "b", "c", "e", "f", "v", "0", "1", "2", "3", "4", "5",
                                     "6", "7"}
            THEN FALSE
            ELSE EchoModelled(s, i + 2)
        \* echo [-n] words
        Echo ==
            LET Printed(text, end) ==
                    IF EchoModelled(text, 1) THEN ShResult(0, EchoText(text, 1) \o end, f, now)
                    ELSE ShResult(Unmodelled, "", f, now)
            IN  IF args # <<>> /\ args[1] = "-n" THEN Printed(Join(Tail(args), " "), "")
                ELSE Printed(Join(args, " "), "\n")
        \* ls, or ls of one name: a missing name is an error (status 2).
        Ls ==
            LET Listed(name, st) ==
                    IF st.err # "" THEN ShResult(2, "", f, now)
                    ELSE IF st.isDir THEN ShResult(0, Listing(f, PathOf(name)), f, now)
                    ELSE ShResult(0, name \o "\n", f, now)
            IN  IF args = <<>> THEN ShResult(0, Listing(f, <<>>), f, now)
                ELSE IF Len(args) = 1 /\ ShPath(args[1])
                THEN Listed(args[1], Stat(f, PathOf(args[1])))
                ELSE ShResult(Unmodelled, "", f, now)
        \* touch names: every name is tried; status 1 when one could not be
        \* written.
        RECURSIVE TouchEach(_, _)
        TouchEach(k, r) ==
            LET Next(t) ==
                    TouchEach(k + 1, ShResult(IF t.exit # 0 THEN 1 ELSE r.exit, "", t.fs, t.now))
            IN  IF k > Len(args) THEN r
                ELSE Next(ShTouch(r.fs, PathOf(args[k]), r.now))
        \* rm names, rm -f names: without -f a missing name is an error.
        RECURSIVE RmEach(_, _)
        RmEach(k, r) ==
            LET Next(t) ==
                    RmEach(k + 1, ShResult(IF t.exit # 0 THEN 1 ELSE r.exit, "", t.fs, t.now))
            IN  IF k > Len(names) THEN r
                ELSE IF ~force /\ Stat(r.fs, PathOf(names[k])).err # ""
                THEN Next(ShResult(1, "", r.fs, r.now))
                ELSE Next(ShRm(r.fs, PathOf(names[k]), r.now))
        \* test: the status of an expression of up to four words.
        RECURSIVE TestExpr(_)
        TestExpr(expr) ==
            LET Status(holds) == IF holds THEN 0 ELSE 1
                Not(code) == IF code = Unmodelled THEN Unmodelled ELSE 1 - code
                Is(n, k, word) == Len(expr) = n /\ expr[k] = word
            IN  CASE Len(expr) = 0 -> 1
                  [] Len(expr) = 1 -> Status(expr[1] # "")
                  [] Is(2, 1, "!") -> Not(TestExpr(Tail(expr)))
                  [] Is(2, 1, "-n") -> Status(expr[2] # "")
                  [] Is(2, 1, "-z") -> Status(expr[2] = "")
                  [] Is(2, 1, "-e") /\ ShPath(expr[2]) ->
                       Status(Stat(f, PathOf(expr[2])).err = "")
                  [] Is(2, 1, "-f") /\ ShPath(expr[2]) ->
                       Status(Stat(f, PathOf(expr[2])).err = ""
                              /\ ~Stat(f, PathOf(expr[2])).isDir)
                  [] Is(2, 1, "-d") /\ ShPath(expr[2]) ->
                       Status(Stat(f, PathOf(expr[2])).isDir)
                  [] Is(3, 2, "=") -> Status(expr[1] = expr[3])
                  [] Is(3, 2, "!=") -> Status(expr[1] # expr[3])
                  [] Is(3, 1, "!") /\ expr[2] \notin {"=", "!="} -> Not(TestExpr(Tail(expr)))
                  [] Is(4, 1, "!") /\ expr[2] # "!" -> Not(TestExpr(Tail(expr)))
                  [] OTHER -> Unmodelled
        \* A name taken to be no command of the system: letters, digits and
        \* '_' only, and either a single character or with an upper-case
        \* letter, some well-known names left aside.
        NoCommand(name) ==
            /\ name \notin {"w", "X", "R", "GET", "HEAD", "POST", "Mail", "Xorg"}
            /\ \A k \in 1..Len(name) :
                  Contains("ABCDEFGHIJKLMNOPQRSTUVWXYZ_abcdefghijklmnopqrstuvwxyz0123456789",
                           At(name, k))
            /\ \/ Len(name) <= 1
               \/ \E k \in 1..Len(name) : Contains("ABCDEFGHIJKLMNOPQRSTUVWXYZ", At(name, k))
        Unfollowed(list) == \E k \in 1..Len(list) : ~ShPath(list[k])
    IN  CASE w[1] = "echo" -> Echo
          [] w[1] = "ls" -> Ls
          [] w[1] = "touch" /\ args = <<>> -> ShResult(1, "", f, now)
          [] w[1] = "touch" /\ args # <<>> /\ Unfollowed(args) -> ShResult(Unmodelled, "", f, now)
          [] w[1] = "touch" /\ args # <<>> /\ ~Unfollowed(args) ->
               TouchEach(1, ShResult(0, "", f, now))
          [] w[1] = "rm" /\ names = <<>> -> ShResult(IF force THEN 0 ELSE 1, "", f, now)
          [] w[1] = "rm" /\ names # <<>> /\ Unfollowed(names) -> ShResult(Unmodelled, "", f, now)
          [] w[1] = "rm" /\ names # <<>> /\ ~Unfollowed(names) ->
               RmEach(1, ShResult(0, "", f, now))
          [] w[1] \in {"true", ":"} -> ShResult(0, "", f, now)
          [] w[1] = "false" -> ShResult(1, "", f, now)
          [] w[1] = "test" -> ShResult(TestExpr(args), "", f, now)
          \* '[' asks for a last argument that begins with ']'
          [] w[1] = "[" /\ (args = <<>> \/ At(args[Len(args)], 1) # "]") -> ShResult(2, "", f, now)
          [] w[1] = "[" /\ args # <<>> /\ At(args[Len(args)], 1) = "]" ->
               ShResult(TestExpr(SubSeq(args, 1, Len(args) - 1)), "", f, now)
          [] NoCommand(w[1]) -> ShResult(127, "", f, now)
          [] OTHER -> ShResult(Unmodelled, "", f, now)

RECURSIVE RunItems(_, _, _)
RECURSIVE RunAndOr(_, _, _)
RECURSIVE RunCommand(_, _)

\* The and-or lists of a list, one after the other; r is the status, the
\* output, the file system and the clock so far.
RunItems(items, k, r) ==
    IF k > Len(items) \/ r.exit = Unmodelled THEN r
    ELSE RunItems(items, k + 1, RunAndOr(items[k], 1, r))

\* a && b runs b when a succeeded, a || b when a failed.
RunAndOr(parts, k, r) ==
    IF k > Len(parts) \/ r.exit = Unmodelled THEN r
    ELSE IF \/ parts[k].conn = ""
            \/ parts[k].conn = "&&" /\ r.exit = 0
            \/ parts[k].conn = "||" /\ r.exit # 0
    THEN RunAndOr(parts, k + 1, RunCommand(parts[k].cmd, r))
    ELSE RunAndOr(parts, k + 1, r)

\* A simple command (status 0 when its words expanded to nothing), or if:
\* the branch the condition's status selects; status 0 when no branch runs.
RunCommand(cmd, r) ==
    LET Ran(u) == ShResult(u.exit, r.out \o u.out, u.fs, u.now)
        Branch(cn) ==
            IF cn.exit = Unmodelled THEN cn
            ELSE IF cn.exit = 0 THEN RunItems(cmd.body, 1, cn)
            ELSE IF cmd.orelse = <<>> THEN ShResult(0, cn.out, cn.fs, cn.now)
            ELSE RunItems(cmd.orelse, 1, cn)
    IN  IF cmd.kind = "simple" /\ cmd.words = <<>> THEN ShResult(0, r.out, r.fs, r.now)
        ELSE IF cmd.kind = "simple" THEN Ran(Utility(cmd.words, r.fs, r.now))
        ELSE Branch(RunItems(cmd.cond, 1, r))

\* The lines of a command from token i on, each parsed whole (parsed holds
\* the parse of the line at i once it is made) and then run; a syntax error
\* ends the shell with status 2 and what ran before stays done.
RECURSIVE RunUnits(_, _, _, _)
RunUnits(toks, i, parsed, r) ==
    CASE r.exit = Unmodelled \/ (parsed = <<>> /\ i > Len(toks)) -> r
      [] r.exit # Unmodelled /\ parsed = <<>> /\ i <= Len(toks) ->
           RunUnits(toks, i, <<ShParse(toks, i)>>, r)
      [] r.exit # Unmodelled /\ parsed # <<>> ->
           CASE parsed[1].err = "unmodelled" -> ShResult(Unmodelled, "", r.fs, r.now)
             [] parsed[1].err = "syntax" -> ShResult(2, r.out, r.fs, r.now)
             [] parsed[1].err = "" ->
                  RunUnits(toks, parsed[1].next + 1, <<>>, RunItems(parsed[1].ast, 1, r))

\* exec.LookPath("sh") with the environment environ: sh is looked for in
\* the directories that PATH lists between colons, under the name
\* filepath.Join(dir, "sh"), which is cleaned: "/bin/", "//bin", "/bin/."
\* and "/usr/../bin" all name /bin. Outside the working directory the
\* model knows the directories SysDirs, which hold sh and the utilities;
\* no other directory holds them.
LookPath(environ) ==
    LET SysDirs == {<<"bin">>, <<"usr", "bin">>}
        \* The elements of the list: the runs without a colon between two
        \* colons or an end.
        SplitList(path) ==
            {SubSeq(path, i, j) : <<i, j>> \in
                {ij \in (1..Len(path)) \X (1..Len(path)) :
                    /\ ij[1] <= ij[2]
                    /\ At(path, ij[1] - 1) \in {"", ":"}
                    /\ At(path, ij[2] + 1) \in {"", ":"}
                    /\ \A k \in ij[1]..ij[2] : At(path, k) # ":"}}
        \* Clean leaves the ".." that lead out of a relative name; at the
        \* root they lead nowhere and are dropped.
        RECURSIVE AtRoot(_)
        AtRoot(p) == IF p # <<>> /\ p[1] = ".." THEN AtRoot(Tail(p)) ELSE p
        Names(dir) == AtRoot(Clean(PathOf(dir), 2, <<>>))
    IN  /\ "PATH" \in DOMAIN environ
        /\ \E dir \in SplitList(environ["PATH"]) : At(dir, 1) = "/" /\ Names(dir) \in SysDirs

\* sh -c command in file system f with environment env and the clock now.
\* The result: exit status, standard output, file system and clock (with
\* the status Unmodelled the others are of no account). ReadFromEnv is
\* the names of the environment that the shell or the utilities it starts
\* read: how ls quotes and orders names, and every name the dynamic
\* linker, the C library or the locale reads (LD_..., LC_..., MALLOC_...,
\* GLIBC_...). A command given one of them is outside the model, and so is
\* one given a PATH that does not lead to the utilities, or one with a ".."
\* in it, which the shell follows through the directories and does not
\* clean away (without PATH the shell looks where they are).
Sh(f, env, command, now) ==
    LET ReadFromEnv ==
            {"QUOTING_STYLE", "LANG", "LANGUAGE", "COLUMNS", "LS_COLORS",
             "TIME_STYLE", "BLOCK_SIZE", "LS_BLOCK_SIZE", "BLOCKSIZE", "POSIXLY_CORRECT",
             "TABSIZE", "TZ", "TZDIR", "ENV", "BASH_ENV", "SHELLOPTS", "IFS", "LOCPATH",
             "NLSPATH", "GCONV_PATH", "TMPDIR", "HOME", "CDPATH", "PS4"}
        ReadByPrefix == {"LD_", "LC_", "MALLOC_", "GLIBC_"}
    IN  IF \/ \E name \in DOMAIN env :
                  name \in ReadFromEnv \/ \E p \in ReadByPrefix : HasPrefix(name, p)
           \/ "PATH" \in DOMAIN env
                 /\ \/ ~LookPath(env)
                    \/ \E i \in 1..Len(env["PATH"]) :
                          At(env["PATH"], i) = "." /\ At(env["PATH"], i + 1) = "."
        THEN ShResult(Unmodelled, "", f, now)
        ELSE RunUnits(Lex(command, env), 1, <<>>, ShResult(0, "", f, now))

\* ---------------------------------------------------------------------
\* VariableStore.getEnvironment, runShellCmd and expand (variables.go)
\* ---------------------------------------------------------------------
\* getEnvironment: the memoized list when there is one; otherwise the process
\* environment overridden by every stored variable that is not of tier
\* ShellEnv, which is memoized. The list is kept as the map it was made from.
getEnvironment(store) ==
    IF store.cachedEnv # <<>>
    THEN [env |-> store.cachedEnv[1], vs |-> store]
    ELSE LET own == {k \in DOMAIN store.vars : store.vars[k].source # sourceShellEnv}
             envMap == [k \in DOMAIN osEnviron \cup own |->
                           IF k \in own THEN store.vars[k].value ELSE osEnviron[k]]
         IN  [env |-> envMap, vs |-> [store EXCEPT !.cachedEnv = <<envMap>>]]

\* A plausible slip: the output of a command is taken from an earlier run of
\* the same command string when there is one.
runShellCmdCached(store, command, f, now, history) ==
    LET seen == {n \in 1..Len(history) :
                    history[n].how \in {"shell", "implicit"}
                        /\ history[n].command = command /\ history[n].exit = 0}
        Output(env, r) ==
            IF seen # {}
            THEN [out |-> TrimRight(history[CHOOSE n \in seen : TRUE].out, {"\n", "\r"}),
                  raw |-> r.out, exit |-> 0, err |-> "", fs |-> f, now |-> now,
                  vs |-> env.vs]
            ELSE [out |-> IF r.exit # 0 THEN "" ELSE TrimRight(r.out, {"\n", "\r"}),
                  raw |-> r.out, exit |-> r.exit,
                  err |-> IF r.exit # 0 THEN "shell command failed" ELSE "",
                  fs |-> r.fs, now |-> r.now, vs |-> env.vs]
    IN  Output(getEnvironment(store), Sh(f, getEnvironment(store).env, command, now))

\* runShellCmd: sh -c command with the environment of the store; standard
\* output without its trailing newlines, or an error when the exit status
\* is not 0; fs and now are the file system and the clock as the command
\* leaves them. (isExpandingForEnv is never set when it is called.)
\* exec.Command looks sh up in the PATH of the process: when it is not
\* found cmd.Run() returns the error and nothing runs (exit NotStarted).
runShellCmd(store, command, f, now, history) ==
    LET NotStarted == 126
        Output(env, r) ==
            [out |-> IF r.exit # 0 THEN "" ELSE TrimRight(r.out, {"\n", "\r"}),
             raw |-> r.out, exit |-> r.exit,
             err |-> IF r.exit # 0 THEN "shell command failed" ELSE "",
             fs |-> r.fs, now |-> r.now, vs |-> env.vs]
    IN  Output(getEnvironment(store),
               IF LookPath(osEnviron) THEN Sh(f, getEnvironment(store).env, command, now)
               ELSE ShResult(NotStarted, "", f, now))

\* unsupportedMakeFunctions (main.go)
unsupportedMakeFunctions ==
    {"subst", "patsubst", "strip", "findstring", "filter", "filter-out", "sort",
     "word", "words", "wordlist", "firstword", "lastword", "dir", "notdir",
     "suffix", "basename", "addsuffix", "addprefix", "join", "foreach", "if",
     "or", "and", "call", "origin", "value", "info", "warning", "error"}

\* The characters of the regular expression ^[a-zA-Z0-9_]+
NameChars ==
    {"a", "b", "c", "d", "e", "f", "g", "h", "i", "j", "k", "l", "m", "n", "o", "p",
     "q", "r", "s", "t", "u", "v", "w", "x", "y", "z",
     "A", "B", "C", "D", "E", "F", "G", "H", "I", "J", "K", "L", "M", "N", "O", "P",
     "Q", "R", "S", "T", "U", "V", "W", "X", "Y", "Z",
     "0", "1", "2", "3", "4", "5", "6", "7", "8", "9", "_"}


\* Lines 138-148: the position of the parenthesis that closes the one open
\* at position j, 0 when there is none.
RECURSIVE MatchParen(_, _, _)
MatchParen(input, j, balance) ==
    LET paren == First(input, j, {"(", ")"}, TRUE)
    IN  IF paren > Len(input) THEN 0
        ELSE IF At(input, paren) = "(" THEN MatchParen(input, paren + 1, balance + 1)
        ELSE IF balance = 1 THEN paren
        ELSE MatchParen(input, paren + 1, balance - 1)

\* The state of an expansion: the result so far, the error, and what the
\* sub-shells it runs see and change (store, file system, clock), with the
\* record of every $(...) evaluated so far.
Expanding(store, f, now, history, ctx) ==
    [result |-> "", err |-> "", vs |-> store, fs |-> f, now |-> now,
     evals |-> history, ctx |-> ctx]

Put(x, s) == [x EXCEPT !.result = @ \o s]
Fail(x, err) == [x EXCEPT !.result = "", !.err = err]

\* A plausible slip: a defined variable is looked up before anything else.
DispatchVariableFirst(store, expandedContent) ==
    IF Get(store, expandedContent)[2] THEN "variable"
    ELSE IF SplitN2(expandedContent, " ")[1] \in unsupportedMakeFunctions
    THEN "unsupported"
    ELSE IF HasPrefix(expandedContent, "shell ") THEN "shell"
    ELSE "implicit"

\* Lines 161-173: what is done with the expanded body of a $(...) form.
Dispatch(store, expandedContent) ==
    IF SplitN2(expandedContent, " ")[1] \in unsupportedMakeFunctions
    THEN "unsupported"
    ELSE IF HasPrefix(expandedContent, "shell ") THEN "shell"
    ELSE IF Get(store, expandedContent)[2] THEN "variable"
    ELSE "implicit"

\* Lines 160-178: the value of the form, after its body was expanded into
\* inner.result; x is the state of the expansion the form stands in. Each
\* evaluation is recorded: the expanded body, what it was taken for, the
\* command run for it with its output and exit status, the text put in its
\* place, and the file system and the environment the evaluation found,
\* with the clock as far as the command went through it.
Evaluate(x, inner) ==
    LET body == inner.result
        how == Dispatch(inner.vs, body)
        command == IF how = "shell" THEN TrimSpace(From(body, 6)) ELSE body
        Logged(cmd, r) ==
            [inner EXCEPT !.evals =
                Append(@, [ctx |-> x.ctx, body |-> body, how |-> how, command |-> cmd,
                           out |-> r.out, exit |-> r.exit, value |-> r.value,
                           fs |-> inner.fs, env |-> r.env, now |-> r.now])]
        Still == [t |-> inner.now.t, ticks |-> <<>>, n |-> 0]
        Ran(r) ==
            LET done == [Logged(command,
                                [out |-> r.raw, exit |-> r.exit, value |-> r.out,
                                 env |-> getEnvironment(inner.vs).env,
                                 now |-> [t |-> inner.now.t, n |-> 0,
                                          ticks |-> SubSeq(inner.now.ticks, 1,
                                              Len(inner.now.ticks) - Len(r.now.ticks))]])
                            EXCEPT !.vs = r.vs, !.fs = r.fs, !.now = r.now]
            IN  IF r.err # "" THEN Fail(done, r.err)
                ELSE [done EXCEPT !.result = x.result \o r.out]
    IN  CASE how = "unsupported" ->
               Fail(Logged("", [out |-> "", exit |-> 0, value |-> "", env |-> <<>>,
                                now |-> Still]),
                    "unsupported function")
          [] how = "variable" ->
               [Logged("", [out |-> "", exit |-> 0, value |-> Get(inner.vs, body)[1],
                            env |-> <<>>, now |-> Still])
                   EXCEPT !.result = x.result \o Get(inner.vs, body)[1]]
          [] OTHER ->
               Ran(runShellCmd(inner.vs, command, inner.fs, inner.now, inner.evals))

\* Whether the expansion goes on and the input continues with text at
\* position i.
Ahead(input, i, x, text) ==
    /\ x.err = ""
    /\ i + Len(text) - 1 <= Len(input)
    /\ SubSeq(input, i, i + Len(text) - 1) = text

\* VariableStore.expand, from position i of input on (lines 111-199); an
\* error ends it at once. The characters up to the next '$' (or backslash,
\* with unescape) are written as they are.
RECURSIVE expand(_, _, _, _, _)
expand(input, unescape, active, i, x) ==
    CASE x.err # "" \/ i > Len(input) -> x
      [] x.err = "" /\ i <= Len(input) /\ At(input, i) # "$"
            /\ ~(unescape /\ At(input, i) = "\\") ->
           expand(input, unescape, active,
                  First(input, i, IF unescape THEN {"$", "\\"} ELSE {"$"}, TRUE),
                  Put(x, SubSeq(input, i,
                          First(input, i, IF unescape THEN {"$", "\\"} ELSE {"$"}, TRUE) - 1)))
      [] unescape /\ Ahead(input, i, x, "\\") /\ i < Len(input) ->
           expand(input, unescape, active, i + 2, Put(x, At(input, i + 1)))
      [] unescape /\ Ahead(input, i, x, "\\") /\ i = Len(input) ->
           expand(input, unescape, active, i + 1, Put(x, "\\"))
      [] Ahead(input, i, x, "$") /\ i = Len(input) ->
           expand(input, unescape, active, i + 1, Put(x, "$"))
      [] Ahead(input, i, x, "$$") ->
           expand(input, unescape, active, i + 2, Put(x, "$"))
      [] Ahead(input, i, x, "$(") ->
           LET end == MatchParen(input, i + 2, 1)
           IN  IF end = 0 THEN Fail(x, "unmatched parenthesis")
               ELSE LET content == SubSeq(input, i + 2, end - 1)
                        inner == expand(content, TRUE, active, 1, [x EXCEPT !.result = ""])
                    IN  IF inner.err # "" THEN Fail(inner, inner.err)
                        ELSE expand(input, unescape, active, end + 1, Evaluate(x, inner))
      \* re.FindString: the longest run of name characters after the '$'.
      [] OTHER ->
           LET varName == SubSeq(input, i + 1, First(input, i + 1, NameChars, FALSE) - 1)
           IN  IF varName = ""
               THEN expand(input, unescape, active, i + 1, Put(x, "$"))
               ELSE IF varName \in active
               THEN Fail(x, "circular variable reference")
               ELSE expand(input, unescape, active, i + 1 + Len(varName),
                           IF Get(x.vs, varName)[2]
                           THEN Put(x, Get(x.vs, varName)[1])
                           ELSE x)

\* VariableStore.Expand: expand with an empty visiting set.
Expand(input, unescape, x) == expand(input, unescape, {}, 1, x)

\* Where an expansion is asked for: kind "assign" (at = the line of the
\* joined input), "header" (at = the raw rule, sub = 1 for the targets and
\* 2 for the sources) or "recipe" (at = the rule, sub = the recipe line).
Ctx(kind, at, sub) == [kind |-> kind, at |-> at, sub |-> sub]

\* One call of VariableStore.Expand from the parser or the engine: what was
\* expanded, against which store and file system, what came out, and which
\* of the recorded evaluations are its own (from..to).
Expansion(ctx, input, x, store, f, history) ==
    [ctx |-> ctx, input |-> input, result |-> x.result, err |-> x.err,
     vars |-> store.vars, fs |-> f, from |-> Len(history) + 1, to |-> Len(x.evals)]

\* ---------------------------------------------------------------------
\* Parser: processFile and joinContinuations (parser.go)
\* ---------------------------------------------------------------------
\* A processedLine{content, originFile, originLine} is a record of these
\* fields.
\* Lines 87-118: the position of the '#' that begins the comment of a
\* line, from position i on, Len(s) + 1 when there is none; a backslash
\* protects the character after it from starting a comment.
RECURSIVE StripScan(_, _)
StripScan(s, i) ==
    LET j == First(s, i, {"\\", "#"}, TRUE)
    IN  IF j > Len(s) THEN Len(s) + 1
        ELSE IF At(s, j) = "\\" THEN StripScan(s, j + 2)
        ELSE j

\* The content of a line and the comment that follows it.
StripComment(s) ==
    [content |-> Upto(s, StripScan(s, 1)), comment |-> From(s, StripScan(s, 1))]

\* What processFile returns, with the include stack of the parser and the
\* calls of processFile so far as it leaves them.
Lines(lines, err, includeStack, calls) ==
    [lines |-> lines, err |-> err, includeStack |-> includeStack, calls |-> calls]

\* A plausible slip: the lines of an included file are put in front of the
\* lines read so far instead of behind them.
SplicePrepended(outputLines, includedLines) == includedLines \o outputLines

\* Line 137: outputLines = append(outputLines, includedLines...)
Splice(outputLines, includedLines) == outputLines \o includedLines

\* A plausible slip: a file stays on the include stack when its processing
\* has returned.
KeptOnStack(includeStack, absPath) == includeStack

\* Line 65: defer delete(p.includeStack, absPath), run at every return that
\* follows it.
Released(includeStack, absPath) == includeStack \ {absPath}

\* os.Open(name) and the reading of the file to its end: the lines, or the
\* error of the walk along the name, or "EISDIR" for a directory, which
\* can be opened and not read. files maps the name of every file that
\* holds text to its lines; a file the shell has made holds none.
Open(files, f, p) ==
    LET Read(st) ==
            IF st.err # "" THEN [err |-> st.err, lines |-> <<>>]
            ELSE IF st.isDir THEN [err |-> "EISDIR", lines |-> <<>>]
            ELSE [err |-> "",
                  lines |-> IF "text" \in DOMAIN f[st.path] THEN files[Join(st.path, "/")]
                            ELSE <<>>]
    IN  Read(Stat(f, p))

\* Parser.processFile(absPath), called while the calls for the files of
\* chain are active, with the include stack as it is on entry. absPath is
\* a clean path, given from the working directory on ("." is the
\* directory itself).
RECURSIVE processFile(_, _, _, _, _, _)
RECURSIVE ScanFile(_, _, _, _, _, _, _, _)
\* The loop over the lines of the file (lines 83-145), from line n on: the
\* lines before the next include directive or ambiguous comment are put
\* out as they are, without their comments. The path of an include is
\* joined to the directory of the file and cleaned (line 131).
ScanFile(files, f, absPath, chain, includeStack, calls, n, outputLines) ==
    LET Comment(k) == TrimSpace(StripComment(files[absPath][k]).comment)
        trimmedLine(k) == TrimSpace(StripComment(files[absPath][k]).content)
        stops == {k \in n..Len(files[absPath]) :
                     HasSuffix(Comment(k), "\\") \/ HasPrefix(trimmedLine(k), "include ")}
        stop == IF stops = {} THEN Len(files[absPath]) + 1
                ELSE CHOOSE k \in stops : \A j \in stops : k <= j
        output == outputLines \o
                      [k \in 1..(stop - n) |->
                          [content |-> StripComment(files[absPath][n + k - 1]).content,
                           originFile |-> absPath, originLine |-> n + k - 1]]
        includePathStr == trimQuotes(TrimSpace(From(trimmedLine(stop), 8)))
        Joined(path) == IF path = <<>> THEN "." ELSE Join(path, "/")
        Included(included) ==
            IF included.err # ""
            THEN Lines(<<>>, included.err,
                       Released(included.includeStack, absPath), included.calls)
            ELSE ScanFile(files, f, absPath, chain, included.includeStack,
                          included.calls, stop + 1, Splice(output, included.lines))
    IN  IF stop > Len(files[absPath])
        THEN Lines(output, "", Released(includeStack, absPath), calls)
        ELSE IF HasSuffix(Comment(stop), "\\")
        THEN Lines(<<>>, "ambiguous line continuation in comment",
                   Released(includeStack, absPath), calls)
        ELSE IF includePathStr = ""
        THEN Lines(<<>>, "empty include path", Released(includeStack, absPath), calls)
        ELSE Included(processFile(files, f,
                                  Joined(Clean(Dir(PathOf(absPath)) \o PathOf(includePathStr),
                                               1, <<>>)),
                                  Append(chain, absPath), includeStack, calls))

\* Lines 61-73 and 146-148: a file that cannot be opened is passed over
\* when it is missing and its name ends in .env, and an error otherwise,
\* as is one that cannot be read. The call is recorded as it is entered:
\* the file, the files whose processFile calls are active (outermost
\* first), the include stack, and whether the call is refused as a
\* circular include.
processFile(files, f, absPath, chain, includeStack, calls) ==
    LET entered == Append(calls, [path |-> absPath, chain |-> chain,
                                  includeStack |-> includeStack,
                                  refused |-> absPath \in includeStack])
        Opened(file) ==
            IF file.err = "ENOENT" /\ HasSuffix(absPath, ".env")
            THEN Lines(<<>>, "", Released(includeStack \cup {absPath}, absPath), entered)
            ELSE IF file.err = "EISDIR"
            THEN Lines(<<>>, "error reading makefile",
                       Released(includeStack \cup {absPath}, absPath), entered)
            ELSE IF file.err # ""
            THEN Lines(<<>>, "could not open makefile",
                       Released(includeStack \cup {absPath}, absPath), entered)
            ELSE ScanFile((absPath :> file.lines) @@ files, f, absPath, chain,
                          includeStack \cup {absPath}, entered, 1, <<>>)
    IN  IF absPath \in includeStack
        THEN Lines(<<>>, "circular include detected", includeStack, entered)
        ELSE Opened(Open(files, f, PathOf(absPath)))

\* joinContinuations, the loop from line i on: current is the line being
\* built, result the lines that are complete. Lines 184-185: a line
\* continues when it ends in a backslash that no backslash precedes, blanks
\* after it left aside.
RECURSIVE JoinFrom(_, _, _, _)
JoinFrom(lines, i, current, result) ==
    CASE i > Len(lines) -> Append(result, current)
      [] /\ i <= Len(lines)
         /\ HasSuffix(TrimRight(current.content, {" ", "\t"}), "\\")
         /\ ~HasSuffix(TrimRight(current.content, {" ", "\t"}), "\\\\") ->
           JoinFrom(lines, i + 1,
                    [current EXCEPT !.content =
                        Upto(TrimRight(@, {" ", "\t"}), Len(TrimRight(@, {" ", "\t"})))
                            \o lines[i].content],
                    result)
      [] OTHER -> JoinFrom(lines, i + 1, lines[i], Append(result, current))

joinContinuations(lines) ==
    IF lines = <<>> THEN <<>> ELSE JoinFrom(lines, 2, lines[1], <<>>)

\* ---------------------------------------------------------------------
\* Parser: the two passes of parseContent (parser.go)
\* ---------------------------------------------------------------------
\* A rawRule{definitionLine, recipeLines, originFile, originLine} is a
\* record of these fields.
\* Line 269: the line begins with a space or a tab.
Indented(s) == Len(s) > 0 /\ At(s, 1) \in {" ", "\t"}

\* A plausible slip: a blank line ends the recipe as well.
EndsRecipeAtBlank(recipeLine) == TrimSpace(recipeLine) = "" \/ ~Indented(recipeLine)

\* Lines 265-271: the line that ends the recipe is the first one that is
\* neither blank nor indented.
EndsRecipe(recipeLine) == TrimSpace(recipeLine) # "" /\ ~Indented(recipeLine)

\* Lines 262-274: the recipe lines from line j on; next is the first line
\* that is not part of the recipe.
CollectRecipe(lines, j, recipeLines) ==
    LET ends == {k \in j..Len(lines) : EndsRecipe(lines[k].content)}
        next == IF ends = {} THEN Len(lines) + 1
                ELSE CHOOSE k \in ends : \A l \in ends : k <= l
    IN  [recipeLines |-> recipeLines \o [k \in 1..(next - j) |-> lines[j + k - 1].content],
         next |-> next]

\* What collectVarsAndRawRules takes the line for (lines 248-308).
LineKind(content) ==
    LET trimmedLine == TrimSpace(content)
        colon == splitOnUnescaped(trimmedLine, ":")
        equals == splitOnUnescaped(trimmedLine, "=")
    IN  IF trimmedLine = "" THEN "blank"
        ELSE IF colon[3] /\ ~Contains(colon[1], "=")
        THEN IF splitOnUnescaped(colon[2], ":")[3] THEN "multiple colons" ELSE "rule"
        ELSE IF equals[3] THEN "assignment"
        ELSE IF HasPrefix(trimmedLine, "load_env ") THEN "load_env"
        ELSE IF Indented(content) THEN "unexpected indented line"
        ELSE "not a rule, assignment, or directive"

\* Lines 276-295: the parts of an assignment line: the operator, the name
\* (the last token of the left side, "" when there is none) and the right
\* side as it is handed to Expand.
Assignment(content) ==
    LET equals == splitOnUnescaped(TrimSpace(content), "=")
        conditional == HasSuffix(TrimSpace(equals[1]), "?")
        left == IF conditional
                THEN TrimSpace(Upto(equals[1], Len(equals[1])))
                ELSE equals[1]
        keyTokens == Fields(TrimSpace(left))
    IN  [op |-> IF conditional THEN "?=" ELSE "=",
         varName |-> IF keyTokens = <<>> THEN "" ELSE keyTokens[Len(keyTokens)],
         noName |-> keyTokens = <<>>,
         right |-> TrimSpace(equals[2]),
         source |-> IF conditional THEN sourceMakefileConditional
                    ELSE sourceMakefileUnconditional]

\* cleanEnvLine (utils.go): <<key, value, ok>>
cleanEnvLine(text) ==
    LET line == TrimSpace(text)
        parts == SplitN2(line, "=")
        keyTokens == IF Len(parts) = 2 THEN Fields(TrimSpace(parts[1])) ELSE <<>>
    IN  IF line = "" \/ HasPrefix(line, "#") THEN <<"", "", FALSE>>
        ELSE IF Len(parts) # 2 THEN <<"", "", FALSE>>
        ELSE IF keyTokens = <<>> THEN <<"", "", FALSE>>
        ELSE <<keyTokens[Len(keyTokens)], trimQuotes(TrimSpace(parts[2])), TRUE>>

\* Parser.loadEnvFile, the loop from line lineNum on: every valid line is
\* written at tier EnvFile.
RECURSIVE LoadEnvFrom(_, _, _, _)
LoadEnvFrom(store, text, filename, lineNum) ==
    IF lineNum > Len(text) THEN store
    ELSE LoadEnvFrom(IF cleanEnvLine(text[lineNum])[3]
                     THEN Set(store, cleanEnvLine(text[lineNum])[1],
                              cleanEnvLine(text[lineNum])[2], sourceEnvFile, filename,
                              lineNum)
                     ELSE store,
                     text, filename, lineNum + 1)

\* Parser.loadEnvFile: a file that is not there is ignored, any other that
\* cannot be opened is an error, and so is one that cannot be read (line
\* 334, scanner.Err()).
loadEnvFile(store, files, f, filename) ==
    LET Loaded(file) ==
            IF file.err = "ENOENT" THEN [vs |-> store, err |-> ""]
            ELSE IF file.err = "EISDIR" THEN [vs |-> store, err |-> "error reading env file"]
            ELSE IF file.err # "" THEN [vs |-> store, err |-> "could not load env file"]
            ELSE [vs |-> LoadEnvFrom(store, file.lines, filename, 1), err |-> ""]
    IN  Loaded(Open(files, f, PathOf(filename)))

\* ---------------------------------------------------------------------
\* Engine.Build and Engine.buildRecursive (engine.go)
\* ---------------------------------------------------------------------
\* One active call of buildRecursive(target): rule is the rule found for it
\* (0 before the lookup), i the next source to resolve, j the next recipe
\* line, pc where the call stands.
Frame(target) == [target |-> target, rule |-> 0, i |-> 1, j |-> 1, pc |-> "enter"]

Top == stack[Len(stack)]
Callers == SubSeq(stack, 1, Len(stack) - 1)
TopRule == makefile.Rules[Top.rule]

Errors == {"expand target name", "circular dependency", "don't know how to make",
           "missing dependency", "stat target", "stat source", "recipe failed"}
\* Build has returned.
Returned == stack = <<>> /\ status \in Errors \cup {"ok"}

NoFail == [kind |-> "", cause |-> "", built |-> {}, launched |-> 0, ran |-> 0,
           rule |-> 0, active |-> {}]

\* A plausible slip: the error of a source is dropped and the caller goes on.
SwallowError(err) == "running"

\* Lines 73-75 and 80-82: `return err` hands the error to the caller as it is.
ReturnErr(err) == err

\* A plausible slip: a name stays in the visiting set when its call
\* returns.
LeftVisiting(v, targetName) == v

\* Line 56: defer func() { delete(e.visiting, targetName) }(), run when the
\* call returns.
DeferredDelete(v, targetName) == v \ {targetName}

\* The innermost call returns an error: `return err` (with the deferred
\* delete when the call had marked its target as visiting). named is the
\* target that the text of the error gives: the name the call was made for
\* in the errors of buildRecursive (lines 54, 66, 93), and what
\* checkFreshness names in its own (lines 124, 156, 158).
Raise(kind, named, cause, deferred) ==
    /\ status' = ReturnErr(kind)
    /\ errTarget' = named
    /\ failSnap' = [kind |-> kind, cause |-> cause, built |-> built,
                    launched |-> Len(launched), ran |-> Len(ran), rule |-> Top.rule,
                    active |-> {stack[n].rule : n \in 1..Len(stack)} \ {0}]
    /\ stack' = Callers
    /\ visiting' = IF deferred THEN DeferredDelete(visiting, Top.target) ELSE visiting

\* The innermost call returns nil.
ReturnNil ==
    /\ stack' = Callers
    /\ status' = IF Len(stack) = 1 THEN "ok" ELSE status
    /\ resolved' = Append(resolved, Top.target)
    /\ UNCHANGED <<errTarget, failSnap>>

\* A plausible slip: only the requested name is marked.
MarkOnlyRequested(b, rule, targetName) == b \cup {targetName}

\* Lines 102-104: every target of the rule is marked built.
MarkBuilt(b, rule, targetName) == b \cup Range(rule.Targets)

\* A plausible slip: the loop over the sources stops one short.
SourcesDoneEarly(rule, i) == i > Len(rule.Sources) - 1

\* Line 69: the loop over rule.Sources is over.
SourcesDone(rule, i) == i > Len(rule.Sources)

\* A plausible slip: a target that is being visited is not recognised.
NeverVisiting(v, targetName) == FALSE

\* Line 53: e.visiting[targetName]
IsVisiting(v, targetName) == targetName \in v

\* A plausible slip: the exit status of a command is ignored.
IgnoreExit(r) == FALSE

\* Line 211: cmd.Run() returned an error.
CmdFailed(r) == r.exit # 0

\* A plausible slip: a name without a rule is accepted whatever is on disk.
AcceptAnything(info) == TRUE

\* Line 62: the name without a rule is an existing non-directory.
IsPlainFile(info) == info.err = "" /\ ~info.isDir

\* main, lines 47-51: NewEngine returns an error when exec.LookPath finds no
\* sh in the PATH of the process (engine.go, lines 25-28), and main exits
\* before Build is called. There is a target: the one given, or the first
\* of the first rule.
NoShell ==
    /\ parser.phase = "parsed"
    /\ status = "idle"
    /\ Len(makefile.Rules) > 0
    /\ ~LookPath(osEnviron)
    /\ status' = "no shell"
    /\ UNCHANGED <<makefile, fs, clock, built, visiting, stack, errTarget, ran, launched,
                   checks, resolved, finished, start, failSnap, after, invocation, first>>
    /\ UNCHANGED storeVars
    /\ UNCHANGED makeVars

\* NewEngine and Engine.Build(targetName), for the name given to make-lite
\* or the first target of the first rule (main, lines 35-52). Build, lines
\* 41-45: the name is expanded (unescape = true) against the store, and the
\* expanded name is what buildRecursive is called for; an error of the
\* expansion is returned.
Build(t) ==
    /\ parser.phase = "parsed"
    /\ status = "idle"
    /\ LookPath(osEnviron)
    /\ \E dry \in {Expand(Join(t, "/"), TRUE,
                          Expanding(vs, fs, [t |-> clock, ticks |-> <<>>, n |-> 0], evals,
                                    Ctx("build", invocation, 0)))} :
       \E now \in Clocks(clock, dry.now.n) :
       \E x \in {Expand(Join(t, "/"), TRUE,
                        Expanding(vs, fs, now, evals, Ctx("build", invocation, 0)))} :
           /\ vs' = x.vs
           /\ fs' = x.fs
           /\ clock' = x.now.t
           /\ evals' = x.evals
           /\ expansions' = Append(expansions,
                                   Expansion(Ctx("build", invocation, 0), Join(t, "/"),
                                             x, vs, fs, evals))
           /\ start' = [name |-> t, target |-> PathOf(x.result), fs |-> x.fs]
           /\ status' = IF x.err # "" THEN "expand target name" ELSE "running"
           /\ stack' = IF x.err # "" THEN <<>> ELSE <<Frame(PathOf(x.result))>>
           /\ errTarget' = IF x.err # "" THEN t ELSE <<>>
           /\ failSnap' = IF x.err # "" THEN [NoFail EXCEPT !.kind = "expand target name"]
                          ELSE NoFail
    /\ UNCHANGED <<makefile, built, visiting, ran, launched, checks, resolved, finished>>
    /\ UNCHANGED <<osEnviron, written, lineNo, lastSet>>
    /\ UNCHANGED <<after, invocation, first>>
    /\ UNCHANGED <<texts, parser, events>>

\* buildRecursive, lines 50-67: the built and visiting tests, the mark, the
\* lookup of the rule and the case of a name without a rule.
Enter ==
    /\ status = "running" /\ stack # <<>> /\ Top.pc = "enter"
    /\ IF Top.target \in built
       THEN ReturnNil /\ UNCHANGED <<built, visiting>>
       ELSE IF IsVisiting(visiting, Top.target)
       THEN Raise("circular dependency", Top.target, "", FALSE)
            /\ UNCHANGED <<built, resolved>>
       ELSE IF Top.target \notin DOMAIN makefile.RuleMap
       THEN IF IsPlainFile(Stat(fs, Top.target))
            THEN /\ built' = built \cup {Top.target}
                 /\ ReturnNil
                 /\ UNCHANGED visiting
            ELSE Raise("don't know how to make", Top.target, "", TRUE)
                 /\ UNCHANGED <<built, resolved>>
       ELSE /\ visiting' = visiting \cup {Top.target}
            /\ stack' = Append(Callers, [Top EXCEPT !.rule = makefile.RuleMap[Top.target],
                                                    !.pc = "sources"])
            /\ UNCHANGED <<built, status, errTarget, resolved, failSnap>>
    /\ UNCHANGED <<makefile, fs, clock, ran, launched, checks, finished, start>>
    /\ UNCHANGED storeVars
    /\ UNCHANGED <<after, invocation, first>>
    /\ UNCHANGED makeVars

\* buildRecursive, lines 69-77: the recursive call for the next source.
CallSource ==
    /\ status = "running" /\ stack # <<>> /\ Top.pc = "sources"
    /\ ~SourcesDone(TopRule, Top.i)
    /\ stack' = Append(Append(Callers, [Top EXCEPT !.i = Top.i + 1]),
                       Frame(TopRule.Sources[Top.i]))
    /\ UNCHANGED <<makefile, fs, clock, built, visiting, status, errTarget, ran,
                   launched, checks, resolved, finished, start, failSnap>>
    /\ UNCHANGED storeVars
    /\ UNCHANGED <<after, invocation, first>>
    /\ UNCHANGED makeVars

\* buildRecursive, lines 79-84: the freshness check and what follows it.
Check ==
    /\ status = "running" /\ stack # <<>> /\ Top.pc = "sources"
    /\ SourcesDone(TopRule, Top.i)
    /\ LET v == checkFreshness(TopRule, fs, makefile.RuleMap)
       IN  /\ checks' = Append(checks, [rule |-> Top.rule, fs |-> fs, verdict |-> v,
                                        built |-> built, ran |-> Len(ran),
                                        resolved |-> Len(resolved)])
           /\ IF v.err # ""
              THEN Raise(v.err, v.named, "", TRUE)
              ELSE /\ stack' = Append(Callers,
                          [Top EXCEPT !.pc = IF v.needsRun THEN "mkdir" ELSE "mark"])
                   /\ UNCHANGED <<visiting, status, errTarget, failSnap>>
    /\ UNCHANGED <<makefile, fs, clock, built, ran, launched, resolved, finished,
                   start>>
    /\ UNCHANGED storeVars
    /\ UNCHANGED <<after, invocation, first>>
    /\ UNCHANGED makeVars

\* The recipe line after line j that is not whitespace only; lines 181-183.
RECURSIVE SkipBlank(_, _)
SkipBlank(recipe, j) ==
    IF j <= Len(recipe) /\ recipe[j].op = "blank" THEN SkipBlank(recipe, j + 1) ELSE j

\* executeRecipe, lines 170-178: the directories of the targets, made by
\* make-lite itself before the first command is launched.
ExecuteRecipe ==
    /\ status = "running" /\ stack # <<>> /\ Top.pc = "mkdir"
    /\ ran' = Append(ran, Top.rule)
    /\ \E dry \in {MakeDirs(fs, TopRule.Targets, 1, [t |-> clock, ticks |-> <<>>, n |-> 0])} :
       \E now \in Clocks(clock, dry.now.n) :
       \E r \in {MakeDirs(fs, TopRule.Targets, 1, now)} :
           /\ fs' = r.fs
           /\ clock' = r.now.t
           /\ IF r.ok
              THEN /\ stack' = Append(Callers,
                          [Top EXCEPT !.pc = "recipe", !.j = SkipBlank(TopRule.Recipe, 1)])
                   /\ UNCHANGED <<visiting, status, errTarget, failSnap>>
              ELSE Raise("recipe failed", Top.target, "mkdir", TRUE)
    /\ UNCHANGED <<makefile, built, launched, checks, resolved, finished, start>>
    /\ UNCHANGED storeVars
    /\ UNCHANGED <<after, invocation, first>>
    /\ UNCHANGED makeVars

\* executeRecipe, lines 185-191: the command of a line, without the first
\* '@' of a line that begins with one.
Command(line) ==
    IF line.at
    THEN Upto(line.arg, Index(line.arg, "@")) \o From(line.arg, Index(line.arg, "@") + 1)
    ELSE line.arg

\* executeRecipe, lines 195-211: the expanded command x is run by sh with
\* the environment of the store, unless its expansion failed; the clock
\* goes on from where the sub-shells of the expansion left it.
Launch(x, ctx, input, store, f, history) ==
    LET Ran(env, r) ==
            [err |-> "", text |-> x.result, exit |-> r.exit, out |-> r.out,
             seen |-> x.fs, fs |-> r.fs, now |-> r.now, vs |-> env.vs, evals |-> x.evals,
             expanded |-> <<Expansion(ctx, input, x, store, f, history)>>]
    IN  IF x.err # ""
        THEN [err |-> x.err, text |-> "", exit |-> 0, out |-> "", seen |-> x.fs,
              fs |-> x.fs, now |-> x.now, vs |-> x.vs, evals |-> x.evals,
              expanded |-> <<Expansion(ctx, input, x, store, f, history)>>]
        ELSE Ran(getEnvironment(x.vs),
                 Sh(x.fs, getEnvironment(x.vs).env, x.result, x.now))

\* executeRecipe, lines 193-211, for one command line: the expansion of
\* the command against the store (unescape = false) and cmd.Run() with the
\* environment of the store. A command of the given makefiles (op other
\* than "sh") holds nothing to expand. seen is the file system the
\* launched command finds.
Exec(store, f, now, history, ctx, line) ==
    IF line.op # "sh"
    THEN LET r == CASE line.op = "touch" -> ShTouch(f, line.arg, now)
                     [] line.op = "rm" -> ShRm(f, line.arg, now)
                     [] line.op = "false" -> [exit |-> 1, fs |-> f, now |-> now]
                     [] OTHER -> [exit |-> 0, fs |-> f, now |-> now]
         IN  [err |-> "", text |-> line.op, exit |-> r.exit, out |-> "", seen |-> f,
              fs |-> r.fs, now |-> r.now,
              vs |-> getEnvironment(store).vs, evals |-> history, expanded |-> <<>>]
    ELSE Launch(Expand(Command(line), FALSE, Expanding(store, f, now, history, ctx)),
                ctx, Command(line), store, f, history)

\* Something the run of a recipe line does that can be seen from outside:
\* kind "echo" (text on standard output), "launch" or "exit" (out is what
\* the command wrote to the standard output it shares with make-lite).
Event(kind, rule, line, text, exit, out) ==
    [kind |-> kind, rule |-> rule, line |-> line, text |-> text, exit |-> exit,
     out |-> out]

\* A plausible slip: the command is echoed once it has run.
EmittedEchoLast(rule, j, suppressEcho, expandedCmd, exit, out) ==
    <<Event("launch", rule, j, expandedCmd, 0, ""),
      Event("exit", rule, j, expandedCmd, exit, out)>>
        \o (IF suppressEcho THEN <<>> ELSE <<Event("echo", rule, j, expandedCmd, 0, "")>>)

\* executeRecipe, lines 198-213: fmt.Println(expandedCmd) unless the echo
\* is suppressed, then exec.Command ... cmd.Run().
Emitted(rule, j, suppressEcho, expandedCmd, exit, out) ==
    (IF suppressEcho THEN <<>> ELSE <<Event("echo", rule, j, expandedCmd, 0, "")>>)
        \o <<Event("launch", rule, j, expandedCmd, 0, ""),
             Event("exit", rule, j, expandedCmd, exit, out)>>

\* executeRecipe, lines 180-214: one command line is expanded, echoed
\* (unless '@'), launched and waited for. Each write of the sub-shells and
\* of the command may fall within the same tick of the file system's clock
\* as the write before it or in a later one.
RunLine ==
    /\ status = "running" /\ stack # <<>> /\ Top.pc = "recipe"
    /\ Top.j <= Len(TopRule.Recipe)
    /\ \E line \in {TopRule.Recipe[Top.j]} :
       \E dry \in {Exec(vs, fs, [t |-> clock, ticks |-> <<>>, n |-> 0], evals,
                        Ctx("recipe", Top.rule, Top.j), line)} :
       \E now \in Clocks(clock, dry.now.n) :
       \E r \in {Exec(vs, fs, now, evals, Ctx("recipe", Top.rule, Top.j), line)} :
           /\ fs' = r.fs
           /\ vs' = r.vs
           /\ evals' = r.evals
           /\ expansions' = expansions \o r.expanded
           /\ clock' = r.now.t
           /\ IF r.err # ""
              THEN /\ Raise("recipe failed", Top.target, "expand", TRUE)
                   /\ UNCHANGED <<launched, events>>
              ELSE /\ launched' = Append(launched, [rule |-> Top.rule, line |-> Top.j,
                                                   echo |-> ~line.at, fs |-> r.seen,
                                                   exit |-> r.exit, ran |-> Len(ran)])
                   /\ events' = events \o Emitted(Top.rule, Top.j, line.at, r.text, r.exit, r.out)
                   /\ IF CmdFailed(r)
                      THEN Raise("recipe failed", Top.target, "exit", TRUE)
                      ELSE /\ stack' = Append(Callers,
                                  [Top EXCEPT !.j = SkipBlank(TopRule.Recipe, Top.j + 1)])
                           /\ UNCHANGED <<visiting, status, errTarget, failSnap>>
    /\ UNCHANGED <<makefile, built, ran, checks, resolved, finished, start>>
    /\ UNCHANGED <<osEnviron, written, lineNo, lastSet>>
    /\ UNCHANGED <<after, invocation, first>>
    /\ UNCHANGED <<texts, parser>>

\* buildRecursive, lines 102-105, after a recipe that ran to its end or a
\* rule found up to date: the targets are marked and the call returns nil.
Finish ==
    /\ status = "running" /\ stack # <<>>
    /\ \/ Top.pc = "mark"
       \/ Top.pc = "recipe" /\ Top.j > Len(TopRule.Recipe)
    /\ built' = MarkBuilt(built, TopRule, Top.target)
    /\ visiting' = DeferredDelete(visiting, Top.target)
    /\ finished' = Append(finished, Top.rule)
    /\ after' = Append(after, [rule |-> Top.rule, fs |-> fs, ran |-> Top.pc = "recipe"])
    /\ ReturnNil
    /\ UNCHANGED <<makefile, fs, clock, ran, launched, checks, start>>
    /\ UNCHANGED storeVars
    /\ UNCHANGED <<invocation, first>>
    /\ UNCHANGED makeVars

\* What an invocation leaves for the comparison with the next one, before
\* there is one.
NoSummary == [ran |-> <<>>, checks |-> <<>>, finished |-> <<>>, after |-> <<>>,
              fs |-> <<>>, target |-> <<>>, rules |-> NewMakefile]

\* buildRecursive, lines 73-75 with the defer of line 57: a caller hands the
\* error of its source on.
Unwind ==
    /\ status \in Errors /\ stack # <<>>
    /\ stack' = Callers
    /\ visiting' = DeferredDelete(visiting, Top.target)
    /\ UNCHANGED <<makefile, fs, clock, built, status, errTarget, ran, launched,
                   checks, resolved, finished, start, failSnap>>
    /\ UNCHANGED storeVars
    /\ UNCHANGED <<after, invocation, first>>
    /\ UNCHANGED makeVars

\* ---------------------------------------------------------------------
\* Parser.ParseFile, step by step (parser.go)
\* ---------------------------------------------------------------------
\* The makefile make-lite reads when it is given no other.
RootFile == "Makefile.mk-lite"

\* The parser before ParseFile: phase "start"; then "pass1" while the two
\* passes of parseContent run, "parsed" when ParseFile has returned the
\* makefile and "error" when it has returned an error. i is the loop
\* variable of collectVarsAndRawRules, k the one of pass 2.
NewParser ==
    [phase |-> "start", includeStack |-> {}, calls |-> <<>>, lines |-> <<>>, i |-> 1,
     rawRules |-> <<>>, k |-> 1, err |-> ""]

ParseError(p, err) == [p EXCEPT !.phase = "error", !.err = err]

\* A plausible slip: the value is stored as it is written and expanded
\* when it is used.
AssignedUnexpanded(right, value) == right

\* Lines 288 and 296: what Set is given is the result of Expand.
AssignedValue(right, value) == value

\* A plausible slip: the rules are parsed whatever pass 1 has got to.
VarsCompleteAnyway(p) == TRUE

\* parseContent, lines 204-210: pass 2 starts when collectVarsAndRawRules
\* has returned, that is when its loop has run over every line.
VarsComplete(p) == p.i > Len(p.lines)

\* One round of the loop of collectVarsAndRawRules (lines 244-309) on the
\* line p.i: the parser, the store and what the sub-shells of the
\* expansion did (file system, clock), after it.
CollectStep(p, store, f, now, history, files) ==
    LET pLine == p.lines[p.i]
        kind == LineKind(pLine.content)
        same == [parser |-> p, vs |-> store, fs |-> f, now |-> now, evals |-> history,
                 expanded |-> <<>>]
    IN  CASE kind = "blank" -> [same EXCEPT !.parser.i = p.i + 1]
          [] kind = "rule" ->
               LET rec == CollectRecipe(p.lines, p.i + 1, <<>>)
               IN  [same EXCEPT !.parser.i = rec.next,
                                !.parser.rawRules = Append(@,
                                    [definitionLine |-> TrimSpace(pLine.content),
                                     recipeLines |-> rec.recipeLines,
                                     originFile |-> pLine.originFile,
                                     originLine |-> pLine.originLine])]
          [] kind = "assignment" ->
               LET ctx == Ctx("assign", p.i, 0)
                   Assigned(asg, x) ==
                       LET done == [same EXCEPT !.fs = x.fs, !.now = x.now, !.evals = x.evals,
                                       !.expanded = <<Expansion(ctx, asg.right, x, store,
                                                                f, history)>>]
                       IN  IF x.err # ""
                           THEN [done EXCEPT !.vs = x.vs,
                                    !.parser = ParseError(p, "error expanding variable value")]
                           ELSE [done EXCEPT !.parser.i = p.i + 1,
                                    !.vs = Set(x.vs, asg.varName,
                                               AssignedValue(asg.right, x.result),
                                               asg.source, pLine.originFile,
                                               pLine.originLine)]
                   Parsed(asg) ==
                       IF asg.noName
                       THEN [same EXCEPT !.parser =
                                ParseError(p, "invalid assignment with no variable name")]
                       ELSE Assigned(asg, Expand(asg.right, TRUE,
                                                   Expanding(store, f, now, history, ctx)))
               IN  Parsed(Assignment(pLine.content))
          [] kind = "load_env" ->
               LET Loaded(r) ==
                       IF r.err # "" THEN [same EXCEPT !.parser = ParseError(p, r.err)]
                       ELSE [same EXCEPT !.parser.i = p.i + 1, !.vs = r.vs]
               IN  Loaded(loadEnvFile(store, files, f,
                                      trimQuotes(TrimSpace(From(TrimSpace(pLine.content), 9)))))
          [] OTHER -> [same EXCEPT !.parser = ParseError(p, kind)]

\* A recipe line as the engine takes it (executeRecipe, lines 181-187): a
\* whitespace-only line is "blank", any other a command for sh; at tells
\* whether it begins with '@' after optional white space.
RecipeLine(raw) ==
    [at |-> HasPrefix(TrimSpace(raw), "@"),
     op |-> IF TrimSpace(raw) = "" THEN "blank" ELSE "sh",
     arg |-> raw]

\* A name of a target or source as a path of the file system.
Paths(words) == [n \in 1..Len(words) |-> PathOf(words[n])]

\* One round of the loop of pass 2 (parseContent, lines 211-236) on the
\* raw rule p.k.
RuleStep(p, m, store, f, now, history) ==
    LET raw == p.rawRules[p.k]
        cl == Ctx("header", p.k, 1)
        cr == Ctx("header", p.k, 2)
        recipe == [n \in 1..Len(raw.recipeLines) |-> RecipeLine(raw.recipeLines[n])]
        Expanded(sides, xl, xr) ==
            LET el == Expansion(cl, sides[1], xl, store, f, history)
                er == Expansion(cr, sides[2], xr, xl.vs, xl.fs, xl.evals)
                Made(targets, sources) ==
                    IF targets = <<>>
                    THEN [parser |-> ParseError(p, "rule with no target"), makefile |-> m,
                          vs |-> xr.vs, fs |-> xr.fs, now |-> xr.now, evals |-> xr.evals,
                          expanded |-> <<el, er>>]
                    ELSE [parser |-> [p EXCEPT !.k = p.k + 1],
                          makefile |-> AddRule(m, Rule(Paths(targets), Paths(sources), recipe)),
                          vs |-> xr.vs, fs |-> xr.fs, now |-> xr.now, evals |-> xr.evals,
                          expanded |-> <<el, er>>]
            IN  IF xl.err # ""
                THEN [parser |-> ParseError(p, "error expanding targets"), makefile |-> m,
                      vs |-> xl.vs, fs |-> xl.fs, now |-> xl.now, evals |-> xl.evals,
                      expanded |-> <<el>>]
                ELSE IF xr.err # ""
                THEN [parser |-> ParseError(p, "error expanding sources"), makefile |-> m,
                      vs |-> xr.vs, fs |-> xr.fs, now |-> xr.now, evals |-> xr.evals,
                      expanded |-> <<el, er>>]
                ELSE Made(Fields(xl.result), Fields(xr.result))
        \* Expand(right) is called only when Expand(left) returned no error
        Right(sides, xl) ==
            Expanded(sides, xl,
                     IF xl.err # "" THEN xl
                     ELSE Expand(sides[2], TRUE,
                                 Expanding(xl.vs, xl.fs, xl.now, xl.evals, cr)))
        Left(sides) ==
            Right(sides, Expand(sides[1], TRUE, Expanding(store, f, now, history, cl)))
    IN  Left(splitOnUnescaped(raw.definitionLine, ":"))

\* ParseFile, lines 43-56: the files are read, the includes put in place
\* and the continued lines joined.
ReadFiles ==
    /\ parser.phase = "start"
    /\ \E processedLines \in {processFile(texts, fs, RootFile, <<>>, parser.includeStack,
                                         parser.calls)} :
          LET read == [parser EXCEPT !.includeStack = processedLines.includeStack,
                                     !.calls = processedLines.calls]
          IN  parser' = IF processedLines.err # ""
                        THEN ParseError(read, processedLines.err)
                        ELSE [read EXCEPT !.phase = "pass1",
                                          !.lines = joinContinuations(processedLines.lines)]
    /\ UNCHANGED <<texts, expansions, evals, events>>
    /\ UNCHANGED storeVars
    /\ UNCHANGED buildVars

\* collectVarsAndRawRules: one round of its loop.
CollectLine ==
    /\ parser.phase = "pass1"
    /\ parser.i <= Len(parser.lines)
    /\ \E dry \in {CollectStep(parser, vs, fs, [t |-> clock, ticks |-> <<>>, n |-> 0],
                                evals, texts)} :
       \E now \in Clocks(clock, dry.now.n) :
       \E s \in {CollectStep(parser, vs, fs, now, evals, texts)} :
           /\ parser' = s.parser
           /\ vs' = s.vs
           /\ fs' = s.fs
           /\ clock' = s.now.t
           /\ evals' = s.evals
           /\ expansions' = expansions \o s.expanded
    /\ UNCHANGED <<texts, events>>
    /\ UNCHANGED <<osEnviron, written, lineNo, lastSet>>
    /\ UNCHANGED <<makefile, built, visiting, stack, status, errTarget, ran,
                   launched, checks, resolved, finished, start, failSnap, after,
                   invocation, first>>

\* parseContent, pass 2: one round of its loop.
ParseRule ==
    /\ parser.phase = "pass1"
    /\ VarsComplete(parser)
    /\ parser.k <= Len(parser.rawRules)
    /\ \E dry \in {RuleStep(parser, makefile, vs, fs, [t |-> clock, ticks |-> <<>>, n |-> 0],
                             evals)} :
       \E now \in Clocks(clock, dry.now.n) :
       \E s \in {RuleStep(parser, makefile, vs, fs, now, evals)} :
           /\ parser' = s.parser
           /\ makefile' = s.makefile
           /\ vs' = s.vs
           /\ fs' = s.fs
           /\ clock' = s.now.t
           /\ evals' = s.evals
           /\ expansions' = expansions \o s.expanded
    /\ UNCHANGED <<texts, events>>
    /\ UNCHANGED <<osEnviron, written, lineNo, lastSet>>
    /\ UNCHANGED <<built, visiting, stack, status, errTarget, ran,
                   launched, checks, resolved, finished, start, failSnap, after,
                   invocation, first>>

\* parseContent, line 238: every raw rule is parsed; ParseFile returns the
\* makefile.
EndParse ==
    /\ parser.phase = "pass1"
    /\ VarsComplete(parser)
    /\ parser.k > Len(parser.rawRules)
    /\ parser' = [parser EXCEPT !.phase = "parsed"]
    /\ UNCHANGED <<texts, expansions, evals, events>>
    /\ UNCHANGED storeVars
    /\ UNCHANGED <<makefile, fs, clock, built, visiting, stack, status, errTarget, ran,
                   launched, checks, resolved, finished, start, failSnap, after,
                   invocation, first>>

\* ---------------------------------------------------------------------
\* main (main.go)
\* ---------------------------------------------------------------------
\* main, lines 35-40: no target is given and the makefile has no rule;
\* main prints ErrorNoRulesNoTarget and exits. (With a rule the default
\* target Rules[0].Targets[0] is built: one of the targets of Build.)
NoTarget ==
    /\ parser.phase = "parsed"
    /\ status = "idle"
    /\ Len(makefile.Rules) = 0
    /\ status' = "no rules and no target"
    /\ UNCHANGED <<makefile, fs, clock, built, visiting, stack, errTarget, ran, launched,
                   checks, resolved, finished, start, failSnap, after, invocation, first>>
    /\ UNCHANGED storeVars
    /\ UNCHANGED makeVars

\* make-lite is run again for the same target after a run that succeeded,
\* with nothing touching the file system in between: a new process, so
\* main's NewVariableStore (no memoized environment) and NewParser (lines
\* 25-27), with the file system and the environment as they are. ParseFile,
\* NewEngine and Build follow as in the first run (ReadFiles, CollectLine,
\* ParseRule, EndParse, NoTarget, NoShell, Build), so that the second run
\* has the sub-shells of its own parse and the rules that this parse gives.
\* What the first run did is kept in first.
Rerun ==
    /\ invocation = 1 /\ status = "ok" /\ stack = <<>>
    /\ invocation' = 2
    /\ first' = [ran |-> ran, checks |-> checks, finished |-> finished, after |-> after,
                 fs |-> fs, target |-> start.target, rules |-> makefile]
    /\ vs' = NewVariableStore(osEnviron)
    /\ parser' = NewParser
    /\ makefile' = NewMakefile
    /\ status' = "idle"
    /\ built' = {}
    /\ visiting' = {}
    /\ ran' = <<>>
    /\ launched' = <<>>
    /\ checks' = <<>>
    /\ resolved' = <<>>
    /\ finished' = <<>>
    /\ after' = <<>>
    /\ expansions' = <<>>
    /\ evals' = <<>>
    /\ events' = <<>>
    /\ UNCHANGED <<fs, clock, stack, errTarget, start, failSnap>>
    /\ UNCHANGED <<osEnviron, written, lineNo, lastSet>>
    /\ UNCHANGED texts

\* The process has ended: ParseFile returned an error (lines 30-33), there
\* was nothing to build (lines 37-40) or Build has returned (lines 52-60).
Exited ==
    \/ parser.phase = "error"
    \/ status \in {"no rules and no target", "no shell"}
    \/ Returned

\* The exit status of the process: os.Exit(1) at lines 32, 39, 50 and 55, and
\* 0 when main returns.
ExitCode ==
    IF parser.phase = "error" THEN 1
    ELSE IF status \in {"no rules and no target", "no shell"} THEN 1
    ELSE IF status \in Errors THEN 1
    ELSE 0

\* ---------------------------------------------------------------------
\* The makefiles and file systems the engine is run on
\* ---------------------------------------------------------------------
\* The PATH of a system whose sh and utilities are in /usr/bin and /bin.
SysPath == "/usr/bin:/bin"

a == <<"a">>
b == <<"b">>
c == <<"c">>
d == <<"d">>
e == <<"e">>

\* Each makefile is given as its rules in declaration order, with the paths
\* whose state before the build varies (every other path is absent).
Makefiles == {
    \* a b: c e / d: a b          a generator of two files, and a user of both
    [rules |-> << Rule(<<a, b>>, <<c, e>>, <<Touch(a), Line("blank", <<>>), Touch(b)>>),
                  Rule(<<d>>, <<a, b>>, <<[True EXCEPT !.at = TRUE]>>) >>,
     vary |-> {a, b, c, e}],
    \* a: b / b: a / c: c / e: d a   cycles, one entered after a phony source
    [rules |-> << Rule(<<a>>, <<b>>, <<Touch(a)>>),
                  Rule(<<b>>, <<a>>, <<Touch(b)>>),
                  Rule(<<c>>, <<c>>, <<True>>),
                  Rule(<<e>>, <<d, a>>, <<True>>),
                  Rule(<<d>>, <<>>, <<True>>) >>,
     vary |-> {a, b, c}],
    \* b c: / b: a / a: c b       b is a target of two rules, and on a cycle
    [rules |-> << Rule(<<b, c>>, <<>>, <<True>>),
                  Rule(<<b>>, <<a>>, <<Touch(b)>>),
                  Rule(<<a>>, <<c, b>>, <<Touch(a)>>) >>,
     vary |-> {a, b}],
    \* a b: / a c: / d: a / e: b d c    a is a target of two rules
    [rules |-> << Rule(<<a, b>>, <<>>, <<True>>),
                  Rule(<<a, c>>, <<>>, <<True>>),
                  Rule(<<d>>, <<a>>, <<Touch(d)>>),
                  Rule(<<e>>, <<b, d, c>>, <<True>>) >>,
     vary |-> {a, d}],
    \* d/s/y: a                   a target two directories down
    [rules |-> << Rule(<< <<"d", "s", "y">> >>, <<a>>, <<Touch(<<"d", "s", "y">>)>>) >>,
     vary |-> {a, d, <<"d", "s">>, <<"d", "s", "y">>}],
    \* d/x b: a                   targets in and out of a directory
    [rules |-> << Rule(<< <<"d", "x">>, b>>, <<a>>, <<Touch(<<"d", "x">>), Touch(b)>>) >>,
     vary |-> {a, b, d, <<"d", "x">>}],
    \* e: a b / a: c / b:         a recipe whose first command fails
    [rules |-> << Rule(<<e>>, <<a, b>>, <<Touch(e)>>),
                  Rule(<<a>>, <<c>>, <<Line("false", <<>>), Touch(a)>>),
                  Rule(<<b>>, <<>>, <<Touch(b)>>) >>,
     vary |-> {a, c, e}],
    \* e: b c / b:                c has no rule
    [rules |-> << Rule(<<e>>, <<b, c>>, <<Touch(e)>>),
                  Rule(<<b>>, <<>>, <<[Touch(b) EXCEPT !.at = TRUE]>>) >>,
     vary |-> {b, c, e}],
    \* a: c b / b:                the recipe of b removes c
    [rules |-> << Rule(<<a>>, <<c, b>>, <<Touch(a)>>),
                  Rule(<<b>>, <<>>, <<Rm(c), Touch(b)>>) >>,
     vary |-> {a, b, c}],
    \* a: c b / b: c              b depends on c, and its recipe removes c
    [rules |-> << Rule(<<a>>, <<c, b>>, <<Touch(a)>>),
                  Rule(<<b>>, <<c>>, <<Rm(c), Touch(b)>>) >>,
     vary |-> {a, b, c}],
    \* a: e c b / b:              the same, behind a source that may be newer
    [rules |-> << Rule(<<a>>, <<e, c, b>>, <<Touch(a)>>),
                  Rule(<<b>>, <<>>, <<Rm(c), Touch(b)>>) >>,
     vary |-> {a, c, e}],
    \* e: a b / a: c / b:         the recipe of b touches c, a source of a
    [rules |-> << Rule(<<e>>, <<a, b>>, <<Touch(e)>>),
                  Rule(<<a>>, <<c>>, <<Touch(a)>>),
                  Rule(<<b>>, <<>>, <<Touch(c), Touch(b)>>) >>,
     vary |-> {a, b, c}],
    \* a b: c e / e:              the recipe of e removes c, a source of a and b
    [rules |-> << Rule(<<a, b>>, <<c, e>>, <<Touch(a), Touch(b)>>),
                  Rule(<<e>>, <<>>, <<Rm(c)>>) >>,
     vary |-> {a, b, c}]
}

\* The names a makefile mentions: each may be asked for.
Mentioned(rules) ==
    UNION {Range(rules[i].Targets) \cup Range(rules[i].Sources) : i \in 1..Len(rules)}

\* The file systems a build may start from: each path that varies is
\* absent, a file or a directory of any age, and the files make-lite reads
\* (the makefile that main finds with os.Stat, and what it includes and
\* loads) are there with their text, in the directories their names give.
\* Whatever exists lies in a directory.
InitialFS(vary, sources) ==
    LET Entries ==
            {Absent} \cup {File(t) : t \in 1..MaxTime} \cup {Directory(t) : t \in 1..MaxTime}
        named == {PathOf(name) : name \in sources}
        dirs == UNION {Ancestors(p) : p \in named}
    IN  {f \in {[p \in AllPaths \cup named \cup dirs |->
                     IF p \in vary THEN g[p]
                     ELSE IF p \in named THEN [kind |-> "file", mtime |-> 1, text |-> TRUE]
                     ELSE IF p \in dirs THEN Directory(1)
                     ELSE Absent] :
                  g \in [vary -> Entries]} :
            \A p \in DOMAIN f :
                f[p].kind # "none" => \A q \in Ancestors(p) : Lookup(f, q).kind = "dir"}

\* ---------------------------------------------------------------------
\* Specifications
\* ---------------------------------------------------------------------
NoWrites == [k \in Keys |-> [uncond |-> <<>>, envfile |-> <<>>, cond |-> <<>>]]

\* No file to parse and nothing parsed or expanded: the makefile is given,
\* as if ParseFile had returned it.
MakeIdle ==
    /\ texts = <<>>
    /\ parser = [NewParser EXCEPT !.phase = "parsed"]
    /\ expansions = <<>>
    /\ evals = <<>>
    /\ events = <<>>

\* main after ParseFile has returned the makefile, before NewEngine: the
\* environment of the process has the PATH of the system, or none.
InitBuild ==
    /\ osEnviron \in {[PATH |-> SysPath], <<>>}
    /\ vs = NewVariableStore(osEnviron)
    /\ written = NoWrites
    /\ lineNo = 0
    /\ lastSet = NoSet
    /\ \E m \in Makefiles :
          /\ makefile = AddRules(NewMakefile, m.rules)
          /\ fs \in InitialFS(m.vary, {RootFile})
    /\ clock = MaxTime + 1
    /\ built = {}
    /\ visiting = {}
    /\ stack = <<>>
    /\ status = "idle"
    /\ errTarget = <<>>
    /\ ran = <<>>
    /\ launched = <<>>
    /\ checks = <<>>
    /\ resolved = <<>>
    /\ finished = <<>>
    /\ start = [name |-> <<>>, target |-> <<>>, fs |-> fs]
    /\ failSnap = NoFail
    /\ after = <<>>
    /\ invocation = 1
    /\ first = NoSummary
    /\ MakeIdle

NextBuild ==
    \/ NoShell
    \/ \E t \in Mentioned(makefile.Rules) : Build(t)
    \/ Enter
    \/ CallSource
    \/ Check
    \/ ExecuteRecipe
    \/ RunLine
    \/ Finish
    \/ Unwind

SpecBuild == InitBuild /\ [][NextBuild]_vars

\* A step of the call of Build that is under way. Build runs in one
\* goroutine and every command it launches is taken to terminate, so a call
\* that can take a step does take it.
SpecBuildFair ==
    SpecBuild /\ WF_vars(Enter \/ CallSource \/ Check \/ ExecuteRecipe \/ RunLine
                              \/ Finish \/ Unwind)

\* ---------------------------------------------------------------------
\* The makefiles make-lite is run on from their text
\* ---------------------------------------------------------------------
\* Each input is the files that can be read (the root makefile, what it
\* includes and what it loads), the process environment, and the paths
\* whose state before the run varies (every other path is absent).
Inputs == {
    \* a value taken from a sub-shell, and the same command in a recipe
    [files |-> RootFile :> << "C = ls",
                              "V = $(shell $(C))",
                              "C = echo",
                              "e: b",
                              "\t@echo $(V)",
                              "\t@echo \"$(shell ls) $(ls)\"",
                              "b:",
                              "\ttouch b" >>,
     env |-> [PATH |-> "/usr/local/bin:/usr/bin/"],
     vary |-> {a, b}],
    \* a header that uses variables assigned after it, in an included file,
    \* in a loaded file and in the environment
    [files |-> RootFile :> << "T = a",
                              "S = a # the first of two",
                              "$(T): $(S) \\",
                              "    $(Y)",
                              "\ttouch $(T)",
                              "include extra.mk",
                              "S = c",
                              "T ?= e",
                              "load_env vars.env" >>
               @@ "extra.mk" :> << "T = b" >>
               @@ "vars.env" :> << "# loaded", "export Y=e", "Z=\"c\"" >>,
     env |-> [PATH |-> SysPath, Y |-> "a"],
     vary |-> {a, b, c}],
    \* a blank line within a recipe, and the line that ends the recipe
    [files |-> RootFile :> << "e: a",
                              "\ttouch b",
                              "",
                              "\ttouch c",
                              "X = 1",
                              "a:",
                              "  touch a" >>,
     env |-> [PATH |-> SysPath],
     vary |-> {a, b}],
    \* the forms of $(...): functions, shell, variables, commands, and
    \* commands whose first word is `if`, behind a space and before a tab
    [files |-> RootFile :> << "dir = zz",
                              "shell = q",
                              "A = $( if true; then echo y; fi)",
                              "B = $(if\ttrue; then echo x; fi)",
                              "V = $$(N)",
                              "N = V",
                              "U = $($(N))$(shell)",
                              "W = $(shell echo hi)$(true)$(echo $(N))",
                              "e: a",
                              "\t@echo $(W)",
                              "\techo $(dir)",
                              "a:",
                              "\ttouch $(shell echo a)" >>,
     env |-> [PATH |-> SysPath],
     vary |-> {a}],
    \* echoed and silent commands, a whitespace-only line, a command that
    \* fails when the directory d is not there
    [files |-> RootFile :> << "e: a",
                              "\techo done",
                              "a:",
                              "\techo one",
                              "\t  ",
                              "\t  @echo two",
                              "\ttouch d/x",
                              "\t@touch a" >>,
     env |-> [PATH |-> SysPath],
     vary |-> {a, d}],
    \* a sub-shell that fails while the variables are read
    [files |-> RootFile :> << "A = $(shell touch a)",
                              "e: a",
                              "B ?= $(false)" >>,
     env |-> [PATH |-> SysPath],
     vary |-> {a}],
    \* a is a target of three rules, b and c of one each
    [files |-> RootFile :> << "a b:",
                              "\ttouch b",
                              "c a: b",
                              "\ttouch c",
                              "e: a c",
                              "\ttouch e",
                              "a:",
                              "\ttouch a" >>,
     env |-> [PATH |-> SysPath],
     vary |-> {a, b}],
    \* a file included three times, two of them through another file and
    \* one of these behind a file that is not there
    [files |-> RootFile :> << "include one.mk",
                              "include two.mk",
                              "include one.mk",
                              "e: $(A)",
                              "\ttouch e" >>
               @@ "one.mk" :> << "A = a", "include none.env" >>
               @@ "two.mk" :> << "include one.mk", "A = b" >>,
     env |-> [PATH |-> SysPath],
     vary |-> {a, b}],
    \* a file that includes, through another, the file that included it
    [files |-> RootFile :> << "include one.mk", "e:" >>
               @@ "one.mk" :> << "A = a", "include two.mk" >>
               @@ "two.mk" :> << "include leaf.mk", "include 'one.mk'" >>
               @@ "leaf.mk" :> << "B = b" >>,
     env |-> [PATH |-> SysPath],
     vary |-> {a}],
    \* a makefile that includes itself
    [files |-> RootFile :> << "e:", "include Makefile.mk-lite" >>,
     env |-> [PATH |-> SysPath],
     vary |-> {a}],
    \* backslashes in front of `$` in recipe lines
    [files |-> RootFile :> << "T = b",
                              "e:",
                              "\t@echo \\$T \\$Q \\\\",
                              "\techo \\$(T)\\$(Q)",
                              "\techo \\$(shell touch a)" >>,
     env |-> [PATH |-> SysPath],
     vary |-> {a}],
    \* two variables that refer to each other in the $(...) form
    [files |-> RootFile :> << "A = $(B)",
                              "B = $(A)",
                              "e:" >>,
     env |-> [PATH |-> SysPath],
     vary |-> {a}],
    \* two variables that refer to each other in the $NAME form
    [files |-> RootFile :> << "A = x$B",
                              "B = y$A",
                              "e:",
                              "\t@echo $(A) $(B)" >>,
     env |-> [PATH |-> SysPath],
     vary |-> {a}],
    \* a makefile without rules
    [files |-> RootFile :> << "# only variables", "X = a", "include more.env" >>,
     env |-> [PATH |-> SysPath],
     vary |-> {a}],
    \* indented lines that follow an assignment: an assignment and a header
    [files |-> RootFile :> << "X = a",
                              "  Y = $(X)",
                              "\te: $(Y)",
                              "\ttouch e",
                              "a:" >>,
     env |-> [PATH |-> SysPath],
     vary |-> {a}],
    \* an indented command that follows an assignment
    [files |-> RootFile :> << "X = a",
                              "\techo $(X)",
                              "e:" >>,
     env |-> [PATH |-> SysPath],
     vary |-> {a}],
    \* names left to the shell, which takes them from its environment
    [files |-> RootFile :> << "X = a b",
                              "Y ?= $(X)",
                              "e:",
                              "\t@echo $$X \"$$Y\" $${Z}c '$$X'",
                              "\ttouch $$X && ls $$Z" >>,
     env |-> [PATH |-> SysPath, Y |-> "c", Z |-> "d"],
     vary |-> {a, d}],
    \* a header whose targets expand to nothing
    [files |-> RootFile :> << "N =",
                              "a: b",
                              "\ttouch a",
                              "$(N) : a",
                              "b:" >>,
     env |-> [PATH |-> SysPath],
     vary |-> {a}],
    \* names that hold something to expand when they are asked for
    [files |-> RootFile :> << "T = a",
                              "$$(T):",
                              "\t@echo made",
                              "a:",
                              "\t@echo a",
                              "e\\\\x $$(false): $$T",
                              "\t@echo x" >>,
     env |-> [PATH |-> SysPath],
     vary |-> {a}],
    \* names with components that stand for no file: included, loaded,
    \* built
    [files |-> RootFile :> << "include ./inc.mk",
                              "load_env ./v.env",
                              "load_env a",
                              "e: ./$(X) d/../b",
                              "\ttouch e",
                              "./a:",
                              "\ttouch a",
                              "d/./x:",
                              "\ttouch d/x" >>
               @@ "inc.mk" :> << "X = a" >>
               @@ "v.env" :> << "FOO=x" >>,
     env |-> [PATH |-> SysPath],
     vary |-> {a, b, d, e}],
    \* a sub-shell that touches a source each time the makefile is read
    [files |-> RootFile :> << "A = $(shell touch a)",
                              "e: a",
                              "\ttouch e" >>,
     env |-> [PATH |-> SysPath],
     vary |-> {a, e}],
    \* the recipe of b touches c, a source of a
    [files |-> RootFile :> << "e: a b",
                              "\ttouch e",
                              "a: c",
                              "\ttouch a",
                              "b:",
                              "\ttouch c",
                              "\ttouch b" >>,
     env |-> [PATH |-> SysPath],
     vary |-> {a, c}],
    \* a process environment without PATH
    [files |-> RootFile :> << "X ?= $(Y)",
                              "e: $(X)",
                              "\ttouch e" >>,
     env |-> [Y |-> "a"],
     vary |-> {a}]
}

\* make-lite before ParseFile: the store holds the environment, nothing is
\* parsed, the engine is not made yet.
InitMake ==
    /\ \E input \in Inputs :
          /\ texts = input.files
          /\ osEnviron = input.env
          /\ fs \in InitialFS(input.vary, DOMAIN input.files)
    /\ vs = NewVariableStore(osEnviron)
    /\ written = NoWrites
    /\ lineNo = 0
    /\ lastSet = NoSet
    /\ makefile = NewMakefile
    /\ parser = NewParser
    /\ expansions = <<>>
    /\ evals = <<>>
    /\ events = <<>>
    /\ clock = MaxTime + 1
    /\ built = {}
    /\ visiting = {}
    /\ stack = <<>>
    /\ status = "idle"
    /\ errTarget = <<>>
    /\ ran = <<>>
    /\ launched = <<>>
    /\ checks = <<>>
    /\ resolved = <<>>
    /\ finished = <<>>
    /\ start = [name |-> <<>>, target |-> <<>>, fs |-> fs]
    /\ failSnap = NoFail
    /\ after = <<>>
    /\ invocation = 1
    /\ first = NoSummary

NextMake ==
    \/ ReadFiles
    \/ CollectLine
    \/ ParseRule
    \/ EndParse
    \/ NoTarget
    \/ NoShell
    \/ \E t \in Mentioned(makefile.Rules) : invocation = 1 /\ Build(t)
    \/ Enter
    \/ CallSource
    \/ Check
    \/ ExecuteRecipe
    \/ RunLine
    \/ Finish
    \/ Unwind

SpecMake == InitMake /\ [][NextMake]_vars

\* make-lite run from the text of its makefile, and run again after a run
\* that succeeded, for the name the first run was given.
NextMakeAgain ==
    \/ NextMake
    \/ Rerun
    \/ invocation = 2 /\ Build(start.name)

SpecMakeAgain == InitMake /\ [][NextMakeAgain]_vars

\* Every command the makefiles of the model hand to the shell, in an
\* expansion or in a recipe, is one the model of the shell follows.
OnlyModelledCommands ==
    /\ \A n \in 1..Len(evals) : evals[n].exit # Unmodelled
    /\ \A n \in 1..Len(launched) : launched[n].exit # Unmodelled

\* Every name the makefiles of the model give to the file system stays
\* within the working directory, and no source is the working directory
\* itself: the names of the rules, the name that is built, the files that
\* are included and loaded.
OnlyModelledPaths ==
    /\ \A n \in 1..Len(makefile.Rules) :
          /\ \A p \in Range(makefile.Rules[n].Targets) : p = <<"">> \/ Inside(p)
          /\ \A p \in Range(makefile.Rules[n].Sources) :
                p = <<"">> \/ (Inside(p) /\ Clean(p, 1, <<>>) # <<>>)
    /\ \A n \in 1..Len(stack) : stack[n].target = <<"">> \/ Inside(stack[n].target)
    /\ \A n \in 1..Len(parser.calls) : Inside(PathOf(parser.calls[n].path))
    /\ \A n \in 1..Len(parser.lines) :
          LineKind(parser.lines[n].content) = "load_env"
          => LET name == trimQuotes(TrimSpace(From(TrimSpace(parser.lines[n].content), 9)))
             IN  name = "" \/ Inside(PathOf(name))

\* One write to the store: the call of Set and the record of it (what the
\* call found and was given).
Write(kind, key, value, source, originFile) ==
    /\ lineNo < MaxWrites
    /\ lineNo' = lineNo + 1
    /\ lastSet' = [called |-> TRUE, key |-> key, value |-> value, source |-> source,
                   originFile |-> originFile, originLine |-> lineNo + 1,
                   existed |-> key \in DOMAIN vs.vars,
                   before |-> vs.vars]
    /\ vs' = Set(vs, key, value, source, originFile, lineNo + 1)
    /\ written' = [written EXCEPT ![key] =
          CASE kind = "uncond" -> [@ EXCEPT !.uncond = <<value>>]
            [] kind = "envfile" -> [@ EXCEPT !.envfile = <<value>>]
            [] OTHER -> IF @.cond = <<>> THEN [@ EXCEPT !.cond = <<value>>] ELSE @]
    /\ UNCHANGED osEnviron
    /\ UNCHANGED buildVars
    /\ UNCHANGED makeVars

\* collectVarsAndRawRules, lines 276-296: `NAME = value`.
Assign(key, value) ==
    Write("uncond", key, value, sourceMakefileUnconditional, "Makefile.mk-lite")

\* collectVarsAndRawRules, lines 276-296: `NAME ?= value`.
AssignConditional(key, value) ==
    Write("cond", key, value, sourceMakefileConditional, "Makefile.mk-lite")

\* loadEnvFile, lines 328-331: one KEY=VALUE line of a file named by load_env.
LoadEnvLine(key, value) ==
    Write("envfile", key, value, sourceEnvFile, ".env")

\* A call of getEnvironment, as runShellCmd (line 88) and executeRecipe
\* (line 204) make it: the list is memoized.
GetEnvironment ==
    /\ vs' = getEnvironment(vs).vs
    /\ UNCHANGED <<osEnviron, written, lineNo, lastSet>>
    /\ UNCHANGED buildVars
    /\ UNCHANGED makeVars

\* The store right after NewVariableStore, for any process environment.
InitStore ==
    /\ makefile = NewMakefile
    /\ fs = [p \in AllPaths |-> Absent]
    /\ clock = MaxTime + 1
    /\ built = {}
    /\ visiting = {}
    /\ stack = <<>>
    /\ status = "idle"
    /\ errTarget = <<>>
    /\ ran = <<>>
    /\ launched = <<>>
    /\ checks = <<>>
    /\ resolved = <<>>
    /\ finished = <<>>
    /\ start = [name |-> <<>>, target |-> <<>>, fs |-> fs]
    /\ failSnap = NoFail
    /\ after = <<>>
    /\ invocation = 1
    /\ first = NoSummary
    /\ MakeIdle
    /\ osEnviron \in UNION {[S -> Values] : S \in SUBSET (Keys \cup {""})}
    /\ vs = NewVariableStore(osEnviron)
    /\ written = NoWrites
    /\ lineNo = 0
    /\ lastSet = NoSet

NextStore ==
    \/ \E k \in Keys, v \in Values : Assign(k, v)
    \/ \E k \in Keys, v \in Values : AssignConditional(k, v)
    \/ \E k \in Keys, v \in Values : LoadEnvLine(k, v)
    \/ GetEnvironment

SpecStore == InitStore /\ [][NextStore]_vars

\* =====================================================================
\* Properties of the variable store (checked under SpecStore)
\* =====================================================================

\* Whether the tier policy stores a write of tier `source` to a name that
\* was (existed) or was not in the store, with entry `old` when it was.
PolicyStores(source, existed, old) ==
    IF source = sourceMakefileConditional
    THEN ~existed
    ELSE ~existed \/ source >= old.source

\* C9: Set follows the tier policy exactly. A MakefileConditional write is
\* stored only when the name is absent at every tier; any other write is
\* stored iff the name is absent or the incoming tier is >= the tier of the
\* existing entry; a rejected write leaves value, tier and origin of the name
\* as they were. (No other name is touched either.)
C9_SetFollowsTierPolicy ==
    lastSet.called =>
        LET k == lastSet.key
            old == IF lastSet.existed THEN lastSet.before[k] ELSE varEntry("", 0, "", 0)
        IN  /\ k \in DOMAIN vs.vars
            /\ IF PolicyStores(lastSet.source, lastSet.existed, old)
               THEN vs.vars[k] = varEntry(lastSet.value, lastSet.source,
                                          lastSet.originFile, lastSet.originLine)
               ELSE vs.vars[k] = old
            /\ \A o \in (DOMAIN vs.vars \cup DOMAIN lastSet.before) \ {k} :
                  /\ o \in DOMAIN vs.vars /\ o \in DOMAIN lastSet.before
                  /\ vs.vars[o] = lastSet.before[o]

\* A `?=` write that found an earlier `?=` value of the name, a different
\* one, and was rejected.
C9_Witness ==
    /\ lastSet.called
    /\ lastSet.source = sourceMakefileConditional
    /\ lastSet.existed
    /\ lastSet.before[lastSet.key].source = sourceMakefileConditional
    /\ lastSet.before[lastSet.key].value # lastSet.value
    /\ vs.vars[lastSet.key] = lastSet.before[lastSet.key]

\* The value the precedence order Unconditional > ShellEnv > EnvFile >
\* Conditional gives a name, as <<value, defined>>.
Precedence(k) ==
    IF written[k].uncond # <<>> THEN <<written[k].uncond[1], TRUE>>
    ELSE IF k \in DOMAIN osEnviron THEN <<osEnviron[k], TRUE>>
    ELSE IF written[k].envfile # <<>> THEN <<written[k].envfile[1], TRUE>>
    ELSE IF written[k].cond # <<>> THEN <<written[k].cond[1], TRUE>>
    ELSE <<"", FALSE>>

\* C10: for every order of `=`, `?=` and load_env writes to a name, the value
\* read is that of the last `=` if there is one; otherwise the value of the
\* process environment if the name was in it at startup; otherwise that of
\* the last load_env write if there is one; otherwise that of the first `?=`.
C10_PrecedenceOrder ==
    \A k \in Keys : Get(vs, k) = Precedence(k)

\* A name that was in the environment and has been written by `=`, by `?=`
\* and by load_env, each with a value other than the one now read.
C10_Witness ==
    \E k \in Keys :
        /\ k \in DOMAIN osEnviron
        /\ written[k].uncond # <<>> /\ written[k].envfile # <<>> /\ written[k].cond # <<>>
        /\ written[k].envfile # written[k].uncond
        /\ written[k].cond # written[k].uncond
        /\ osEnviron[k] # written[k].uncond[1]

\* The tiers Set has been called with for a name, so far.
CalledTiers(k) ==
    (IF written[k].uncond # <<>> THEN {sourceMakefileUnconditional} ELSE {})
        \cup (IF written[k].envfile # <<>> THEN {sourceEnvFile} ELSE {})
        \cup (IF written[k].cond # <<>> THEN {sourceMakefileConditional} ELSE {})

\* Every name Set was called for is in the store, at a tier that is at least
\* every tier it was called with.
TierAtLeastCalled ==
    \A k \in Keys :
        \A t \in CalledTiers(k) :
            k \in DOMAIN vs.vars /\ vs.vars[k].source >= t

\* A step neither removes a name from the store nor lowers its tier.
TierNeverDecreases ==
    \A k \in DOMAIN vs.vars :
        k \in DOMAIN vs'.vars /\ vs'.vars[k].source >= vs.vars[k].source

\* C11: monotone precedence. After Set has been called for a name at tier T,
\* accepted or not, every later state of the store holds an entry for the
\* name whose tier is >= T, and the stored tier of a name never decreases
\* over any sequence of Set calls.
C11_MonotonePrecedence ==
    /\ []TierAtLeastCalled
    /\ [][TierNeverDecreases]_vars

\* A load_env write to a name of the environment was rejected (the name
\* stays at tier ShellEnv), and so was a later `?=` write to a name that a
\* load_env write had created.
C11_Witness ==
    /\ lastSet.called
    /\ lastSet.source = sourceMakefileConditional
    /\ lastSet.existed
    /\ vs.vars[lastSet.key].source = sourceEnvFile
    /\ vs.vars[lastSet.key].value # lastSet.value
    /\ \E k \in Keys :
          /\ k \in DOMAIN osEnviron
          /\ written[k].envfile # <<>>
          /\ vs.vars[k].source = sourceShellEnv
          /\ vs.vars[k].value # written[k].envfile[1]

\* =====================================================================
\* Properties of the build engine (checked under SpecBuild)
\* =====================================================================
RuleAt(r) == makefile.Rules[r]

\* The smallest modification time among the given paths, all of them present.
MinTime(f, paths) ==
    CHOOSE t \in {f[p].mtime : p \in paths} : \A p \in paths : t <= f[p].mtime

\* The check found the rule stale and its recipe is the next one started.
RecipeRuns(n) ==
    LET chk == checks[n]
    IN  /\ chk.verdict.needsRun
        /\ chk.verdict.err = ""
        /\ IF Len(ran) > chk.ran
           THEN ran[chk.ran + 1] = chk.rule
           ELSE n = Len(checks) /\ stack # <<>> /\ Top.rule = chk.rule /\ Top.pc = "mkdir"

\* The check did not find the rule stale and its recipe is never started.
RecipeDoesNotRun(n) ==
    /\ ~checks[n].verdict.needsRun
    /\ \A m \in 1..Len(ran) : ran[m] # checks[n].rule

AllTargetsAreFiles(f, rule) == \A t \in Range(rule.Targets) : f[t].kind = "file"

\* Every source is on disk and strictly older than every target.
SourcesPresentAndOlder(f, rule) ==
    \A src \in Range(rule.Sources) :
        f[src].kind # "none" /\ f[src].mtime < MinTime(f, Range(rule.Targets))

\* The position of the first target, in declared order, that is not an
\* existing regular file (0 when all are).
FirstOddTarget(f, rule) ==
    LET odd == {k \in 1..Len(rule.Targets) : f[rule.Targets[k]].kind # "file"}
    IN  IF odd = {} THEN 0 ELSE CHOOSE k \in odd : \A j \in odd : k <= j

\* C1 as stated: whenever checkFreshness is applied to a rule with a target
\* that is missing or a directory, it reports the rule stale and the recipe
\* runs; a rule whose targets are all files with every source present and
\* older does not run.
C1_AsStated ==
    \A n \in 1..Len(checks) :
        LET f == checks[n].fs
            rule == RuleAt(checks[n].rule)
        IN  /\ (\E t \in Range(rule.Targets) : f[t].kind \in {"none", "dir"})
                   => RecipeRuns(n)
            /\ (AllTargetsAreFiles(f, rule) /\ SourcesPresentAndOlder(f, rule))
                   => RecipeDoesNotRun(n)

\* C1, amended: the targets are examined in declared order, and the first one
\* that is not an existing regular file decides. If it is absent or a
\* directory the rule is reported stale, whatever the sources are, and the
\* recipe runs; if its stat fails otherwise (a component of its path is a
\* regular file) checkFreshness returns that error and the recipe does not
\* run. A rule whose targets are all files with every source present and
\* older does not run.
C1_PhonyIsStale ==
    \A n \in 1..Len(checks) :
        LET f == checks[n].fs
            rule == RuleAt(checks[n].rule)
            k == FirstOddTarget(f, rule)
        IN  /\ k # 0 =>
                  IF Stat(f, rule.Targets[k]).err \in {"", "ENOENT"}
                  THEN RecipeRuns(n)
                  ELSE checks[n].verdict.err = "stat target" /\ RecipeDoesNotRun(n)
            /\ (AllTargetsAreFiles(f, rule) /\ SourcesPresentAndOlder(f, rule))
                   => RecipeDoesNotRun(n)

\* A rule with a directory among its targets and a file before it, whose
\* sources are all present and older than both, was checked and has run.
C1_Witness ==
    \E n \in 1..Len(checks) :
        LET f == checks[n].fs
            rule == RuleAt(checks[n].rule)
        IN  /\ Len(rule.Targets) = 2 /\ Len(rule.Sources) > 0
            /\ f[rule.Targets[1]].kind = "file"
            /\ f[rule.Targets[2]].kind = "dir"
            /\ \A src \in Range(rule.Sources) :
                  f[src].kind = "file" /\ f[src].mtime < f[rule.Targets[1]].mtime
                                       /\ f[src].mtime < f[rule.Targets[2]].mtime
            /\ \E m \in 1..Len(ran) : ran[m] = checks[n].rule

\* C2: a multi-target rule is a single unit. Within one Build the recipe of
\* any rule is started at most once, however many of its targets are asked
\* for, and once a rule has been evaluated (ran or found up to date) every
\* one of its targets is in the built set.
C2_RuleIsSingleUnit ==
    /\ \A m, n \in 1..Len(ran) : ran[m] = ran[n] => m = n
    /\ \A m, n \in 1..Len(finished) : finished[m] = finished[n] => m = n
    /\ \A n \in 1..Len(finished) : Range(RuleAt(finished[n]).Targets) \subseteq built

\* A Build that succeeded, in which both targets of a two-target rule were
\* asked for as sources and the rule ran.
C2_Witness ==
    /\ status = "ok"
    /\ \E r \in 1..Len(makefile.Rules) :
          /\ Len(RuleAt(r).Targets) = 2
          /\ \E m \in 1..Len(ran) : ran[m] = r
          /\ \E m, n \in 1..Len(resolved) :
                /\ m < n
                /\ resolved[m] = RuleAt(r).Targets[1]
                /\ resolved[n] = RuleAt(r).Targets[2]

\* A source whose stat makes checkFreshness return an error.
FatalSource(f, src) ==
    \/ Stat(f, src).err = "ENOENT" /\ src \notin DOMAIN makefile.RuleMap
    \/ Stat(f, src).err \notin {"", "ENOENT"}

\* A source that is on disk and strictly newer than the oldest target.
NewerSource(f, rule, src) ==
    Stat(f, src).err = "" /\ f[src].mtime > MinTime(f, Range(rule.Targets))

\* C3 as stated: for a rule whose targets all exist as non-directories, with
\* zero sources the rule is fresh; otherwise it is stale iff some source that
\* exists on disk is strictly newer than the oldest target.
C3_AsStated ==
    \A n \in 1..Len(checks) :
        LET f == checks[n].fs
            rule == RuleAt(checks[n].rule)
        IN  AllTargetsAreFiles(f, rule) =>
                checks[n].verdict.needsRun =
                    (\E src \in Range(rule.Sources) : NewerSource(f, rule, src))

\* C3, amended: for a rule whose targets all exist as non-directories, with
\* zero sources the rule is fresh; otherwise the sources are examined in
\* declared order and the rule is stale iff some source that exists on disk
\* is strictly newer than the oldest target (equal times are fresh) and no
\* source listed before it is missing without a rule or fails to stat; when
\* such a source comes first, checkFreshness returns an error instead.
C3_TimestampRule ==
    \A n \in 1..Len(checks) :
        LET f == checks[n].fs
            rule == RuleAt(checks[n].rule)
            src == rule.Sources
            newer == {k \in 1..Len(src) : NewerSource(f, rule, src[k])}
            fatal == {k \in 1..Len(src) : FatalSource(f, src[k])}
        IN  AllTargetsAreFiles(f, rule) =>
                /\ checks[n].verdict.needsRun =
                      (\E k \in newer : \A j \in fatal : k < j)
                /\ (checks[n].verdict.err # "") =
                      (\E j \in fatal : \A k \in newer : j < k)

\* A check of a rule with two targets of different age and a source that is
\* newer than the older target only: the rule was found stale.
C3_Witness ==
    \E n \in 1..Len(checks) :
        LET f == checks[n].fs
            rule == RuleAt(checks[n].rule)
        IN  /\ Len(rule.Targets) = 2 /\ Len(rule.Sources) = 2
            /\ AllTargetsAreFiles(f, rule)
            /\ f[rule.Targets[1]].mtime > f[rule.Targets[2]].mtime
            /\ f[rule.Sources[1]] = File(f[rule.Targets[2]].mtime)
            /\ f[rule.Sources[2]] = File(f[rule.Targets[1]].mtime)
            /\ checks[n].verdict.needsRun

\* A source that is not on disk.
MissingSource(f, src) == Stat(f, src).err = "ENOENT"

\* C19 as stated: in the check of a rule whose targets all exist as files, a
\* missing source that is a target of some rule is ignored for the timestamp
\* comparison, so the rule stays fresh and does not run even though the
\* recipe of the phony source ran; a missing source that is not a rule
\* target is a fatal missing-dependency error.
C19_AsStated ==
    \A n \in 1..Len(checks) :
        LET f == checks[n].fs
            rule == RuleAt(checks[n].rule)
            others == {src \in Range(rule.Sources) :
                          ~(MissingSource(f, src) /\ src \in DOMAIN makefile.RuleMap)}
        IN  AllTargetsAreFiles(f, rule) =>
                /\ (\A src \in others :
                        Stat(f, src).err = "" /\ ~NewerSource(f, rule, src))
                       => (~checks[n].verdict.needsRun /\ checks[n].verdict.err = ""
                           /\ RecipeDoesNotRun(n))
                /\ (\E src \in Range(rule.Sources) :
                        MissingSource(f, src) /\ src \notin DOMAIN makefile.RuleMap)
                       => checks[n].verdict.err = "missing dependency"

\* C19, amended: in the check of a rule whose targets all exist as files, a
\* missing source that is a target of some rule is ignored for the timestamp
\* comparison, so the rule stays fresh and does not run even though the
\* recipe of the phony source ran; a missing source that is not a rule
\* target is a fatal missing-dependency error when the sources listed before
\* it are neither newer than the oldest target nor failing to stat (the
\* check returns at the first source that decides).
C19_PhonyNotInfectious ==
    \A n \in 1..Len(checks) :
        LET f == checks[n].fs
            rule == RuleAt(checks[n].rule)
            src == rule.Sources
            others == {k \in 1..Len(src) :
                          ~(MissingSource(f, src[k]) /\ src[k] \in DOMAIN makefile.RuleMap)}
            lost == {k \in 1..Len(src) :
                          MissingSource(f, src[k]) /\ src[k] \notin DOMAIN makefile.RuleMap}
        IN  AllTargetsAreFiles(f, rule) =>
                /\ (\A k \in others :
                        Stat(f, src[k]).err = "" /\ ~NewerSource(f, rule, src[k]))
                       => (~checks[n].verdict.needsRun /\ checks[n].verdict.err = ""
                           /\ RecipeDoesNotRun(n))
                /\ \A j \in lost :
                       (\A k \in 1..(j - 1) :
                           \/ k \notin others
                           \/ Stat(f, src[k]).err = "" /\ ~NewerSource(f, rule, src[k]))
                       => (checks[n].verdict.err = "missing dependency"
                           /\ RecipeDoesNotRun(n))

\* Build succeeded without running a rule whose target is a file and whose
\* source is missing, although the recipe of the rule of that source ran.
C19_Witness ==
    /\ status = "ok"
    /\ \E n \in 1..Len(checks) :
          LET f == checks[n].fs
              rule == RuleAt(checks[n].rule)
          IN  /\ AllTargetsAreFiles(f, rule)
              /\ ~checks[n].verdict.needsRun
              /\ RecipeDoesNotRun(n)
              /\ \E src \in Range(rule.Sources) :
                    /\ MissingSource(f, src)
                    /\ src \in DOMAIN makefile.RuleMap
                    /\ \E m \in 1..checks[n].ran : ran[m] = makefile.RuleMap[src]

\* The rule has a target that is missing or a directory (a phony rule).
PhonyAt(f, rule) ==
    \E t \in Range(rule.Targets) : Stat(f, t).err = "ENOENT" \/ Stat(f, t).isDir

\* All targets of the rule are regular files at least as new as every
\* source of the rule that is on disk.
FilesNotOlder(f, rule) ==
    /\ \A t \in Range(rule.Targets) : IsPlainFile(Stat(f, t))
    /\ \A t \in Range(rule.Targets), src \in Range(rule.Sources) :
          Stat(f, src).err = "" => Stat(f, t).modTime >= Stat(f, src).modTime

\* The file system the rule of the m-th recipe of this invocation was
\* checked in.
CheckedIn(m) ==
    LET n == CHOOSE n \in 1..Len(checks) : checks[n].rule = ran[m]
    IN  checks[n].fs

\* The rules the first invocation parsed.
FirstRule(r) == first.rules.Rules[r]

\* The second invocation has parsed the rules the first one parsed and has
\* started its build, for the same target, on the file system exactly as
\* the first invocation left it: nothing has changed it in between, and
\* neither have the sub-shells the second invocation ran while it read the
\* makefile and expanded the name of the target.
SecondStartsWhereFirstEnded ==
    /\ invocation = 2
    /\ status \in Errors \cup {"running", "ok"}
    /\ makefile = first.rules
    /\ start.target = first.target
    /\ start.fs = first.fs

\* C20 as stated: idempotence. If an invocation succeeds and every recipe it
\* ran left all targets of its rule as regular files at least as new as all
\* of the rule's sources (when the recipe ended, and still when the
\* invocation ended), a second invocation for the same target with no change
\* of the file system in between runs no recipe except those of rules that
\* have a missing or directory target.
C20_AsStated ==
    (/\ SecondStartsWhereFirstEnded
     /\ \A k \in 1..Len(first.after) :
           first.after[k].ran =>
               /\ FilesNotOlder(first.after[k].fs, FirstRule(first.after[k].rule))
               /\ FilesNotOlder(first.fs, FirstRule(first.after[k].rule)))
    => \A m \in 1..Len(ran) : PhonyAt(CheckedIn(m), RuleAt(ran[m]))

\* Every rule the first invocation evaluated is, in the file system it left,
\* either phony or has all targets as files not older than the sources.
LeftUpToDate ==
    \A k \in 1..Len(first.finished) :
        \/ PhonyAt(first.fs, FirstRule(first.finished[k]))
        \/ FilesNotOlder(first.fs, FirstRule(first.finished[k]))

\* C20, amended: if an invocation succeeds and leaves every rule it
\* evaluated (ran or found fresh) either with a missing or directory target
\* or with all targets as regular files at least as new as all of the rule's
\* sources on disk, and a second invocation for the same target parses the
\* same rules and starts its build on the file system exactly as the first
\* one left it (nothing changes it in between, the sub-shells that the
\* second invocation runs while it reads the makefile included), then the
\* first recipe that the second invocation runs, if any, is that of a rule
\* with a missing or directory target; when no evaluated rule has such a
\* target, the second invocation runs no recipe at all.
C20_Idempotence ==
    (SecondStartsWhereFirstEnded /\ LeftUpToDate) =>
        /\ ran # <<>> => PhonyAt(CheckedIn(1), RuleAt(ran[1]))
        /\ (\A k \in 1..Len(first.finished) :
                ~PhonyAt(first.fs, FirstRule(first.finished[k])))
               => ran = <<>>

\* A second invocation that parsed the makefile again and succeeded without
\* running anything, after a first one that ran the recipes of two rules.
C20_Witness ==
    /\ SecondStartsWhereFirstEnded
    /\ Returned /\ status = "ok"
    /\ LeftUpToDate
    /\ Len(first.ran) >= 2
    /\ Len(checks) >= 2
    /\ ran = <<>>

\* Whether the sequence sub occurs in seq as a subsequence, from position k of
\* sub and position n of seq on.
RECURSIVE OccursInOrder(_, _, _, _)
OccursInOrder(sub, seq, k, n) ==
    IF k > Len(sub) THEN TRUE
    ELSE IF n > Len(seq) THEN FALSE
    ELSE IF seq[n] = sub[k] THEN OccursInOrder(sub, seq, k + 1, n + 1)
    ELSE OccursInOrder(sub, seq, k, n + 1)

\* When rule n was checked, the calls for its sources had returned nil one
\* after the other in declared order, and every source was in the built set.
SourcesResolvedFirst ==
    \A n \in 1..Len(checks) :
        LET rule == RuleAt(checks[n].rule)
        IN  /\ OccursInOrder(rule.Sources, SubSeq(resolved, 1, checks[n].resolved), 1, 1)
            /\ Range(rule.Sources) \subseteq checks[n].built

\* The recipe of the rule of a source never starts after the freshness check
\* (and so never after the recipe) of a rule that lists the source.
SourceRecipesFirst ==
    \A n \in 1..Len(checks) :
        \A src \in Range(RuleAt(checks[n].rule).Sources) \cap DOMAIN makefile.RuleMap :
            \A m \in 1..Len(ran) :
                ran[m] = makefile.RuleMap[src] => m <= checks[n].ran

\* C4 as stated: traversal is depth-first in declared order. For every rule
\* that is evaluated each source has been completely resolved, left to
\* right, before the rule's own freshness check and recipe, so the check
\* sees what the source recipes produced, and no source's recipe ever runs
\* after the recipe of a rule that depends on it.
C4_AsStated == SourcesResolvedFirst /\ SourceRecipesFirst

\* A name is a target of two rules.
DuplicateTarget ==
    \E m, n \in 1..Len(makefile.Rules) :
        m # n /\ Range(RuleAt(m).Targets) \cap Range(RuleAt(n).Targets) # {}

\* The sources of the rule the target map gives a name.
SourcesOf(t) ==
    IF t \in DOMAIN makefile.RuleMap
    THEN Range(RuleAt(makefile.RuleMap[t]).Sources)
    ELSE {}

\* The names reachable from the names S along source lists.
RECURSIVE Reachable(_)
Reachable(S) ==
    LET next == S \cup UNION {SourcesOf(t) : t \in S}
    IN  IF next = S THEN S ELSE Reachable(next)

\* The name depends on itself through a chain of rules.
OnCycle(t) == t \in Reachable(SourcesOf(t))

\* C5 as stated: if a target depends on itself through a chain of rules
\* reachable from the requested target, Build never returns success (it
\* fails, with the circular-dependency error when a visiting target is
\* entered again), and no recipe of a rule on the cycle is executed.
C5_AsStated ==
    (status # "idle" /\ \E t \in Reachable({start.target}) : OnCycle(t)) =>
        /\ status # "ok"
        /\ \A m \in 1..Len(ran) :
              \A t \in DOMAIN makefile.RuleMap :
                  makefile.RuleMap[t] = ran[m] => ~OnCycle(t)
        /\ (Returned /\ failSnap.kind = "circular dependency") =>
              status = "circular dependency"

\* The command is the first one launched for its rule.
FirstCommand(k) == \A j \in 1..(k - 1) : launched[j].rule # launched[k].rule

\* C6: before the first command of a rule's recipe is launched, the parent
\* directory of every target of the rule exists on disk; if a directory
\* cannot be created, executeRecipe returns an error and no command of the
\* recipe is launched.
C6_ParentDirsFirst ==
    /\ \A k \in 1..Len(launched) :
          FirstCommand(k) =>
              \A t \in Range(RuleAt(launched[k].rule).Targets) :
                  \A q \in Ancestors(t) : launched[k].fs[q].kind = "dir"
    /\ failSnap.cause = "mkdir" =>
          /\ status = "recipe failed"
          /\ Len(launched) = failSnap.launched
          /\ \A k \in 1..Len(launched) : launched[k].rule # failSnap.rule

\* The first command of a rule was launched with the two directories above
\* its target in place, neither of which was there when the rule was checked.
C6_Witness ==
    \E k \in 1..Len(launched), n \in 1..Len(checks) :
        /\ FirstCommand(k)
        /\ checks[n].rule = launched[k].rule
        /\ \E t \in Range(RuleAt(launched[k].rule).Targets) :
              /\ Len(t) = 3
              /\ \A q \in Ancestors(t) :
                    checks[n].fs[q].kind = "none" /\ launched[k].fs[q].kind = "dir"

\* C7: fail-fast. Once a recipe command exits with a non-zero status no
\* later command of that recipe and no recipe of another rule is launched,
\* Build returns the error "recipe for target '...' failed" for the target
\* the rule was entered by, and the targets of the failed rule are not added
\* to the built set (it stays what it was when the rule was checked).
C7_FailFast ==
    \A k \in 1..Len(launched) :
        launched[k].exit # 0 =>
            /\ k = Len(launched)
            /\ Len(ran) = launched[k].ran
            /\ status = "recipe failed"
            /\ errTarget \in DOMAIN makefile.RuleMap
            /\ makefile.RuleMap[errTarget] = launched[k].rule
            /\ checks[Len(checks)].rule = launched[k].rule
            /\ built = checks[Len(checks)].built

\* Build returned the recipe error after a command failed that was neither
\* the last of its recipe nor in the last rule to run: another line and the
\* rule of the caller were still to come.
C7_Witness ==
    /\ Returned
    /\ status = "recipe failed"
    /\ \E k \in 1..Len(launched) :
          /\ launched[k].exit # 0
          /\ launched[k].line < Len(RuleAt(launched[k].rule).Recipe)
          /\ start.target # errTarget
          /\ start.target \notin built

\* the rules waiting for it) has run. A name that buildRecursive does not
\* know how to make is a source of no rule whose recipe has run.
NothingRunsForMissing ==
    failSnap.kind \in {"don't know how to make", "missing dependency"} =>
        /\ status = failSnap.kind
        /\ Len(ran) = failSnap.ran
        /\ Len(launched) = failSnap.launched
        /\ \A m \in 1..Len(ran) : ran[m] \notin failSnap.active
        /\ failSnap.kind = "don't know how to make" =>
              /\ errTarget \notin DOMAIN makefile.RuleMap
              /\ errTarget \notin built
              /\ fs[errTarget].kind # "file"
              /\ \A m \in 1..Len(ran) : errTarget \notin Range(RuleAt(ran[m]).Sources)

\* buildRecursive is entered for a name that has no rule and is not on disk.
ReachesMissing ==
    /\ status = "running" /\ stack # <<>> /\ Top.pc = "enter"
    /\ Top.target \notin built /\ Top.target \notin visiting
    /\ Top.target \notin DOMAIN makefile.RuleMap
    /\ Stat(fs, Top.target).err # ""

\* The freshness check of a rule found a source missing after the recipe
\* of another rule that lists the same source had run and removed it.
MissingAfterUserRan ==
    /\ Returned
    /\ status = "missing dependency"
    /\ \E m \in 1..Len(ran) :
          \E src \in Range(RuleAt(ran[m]).Sources) :
              /\ src \notin DOMAIN makefile.RuleMap
              /\ start.fs[src].kind = "file"
              /\ fs[src].kind = "none"
              /\ src \in Range(RuleAt(failSnap.rule).Sources)


\* The expansions asked for by assignments, by rule headers, by recipes.
OfKind(kind) == {n \in 1..Len(expansions) : expansions[n].ctx.kind = kind}
EvalsOfKind(kind) == {n \in 1..Len(evals) : evals[n].ctx.kind = kind}

\* The result of expanding input again against a store and a file system
\* as they were.
ExpandedAgainst(input, unescape, storedVars, f) ==
    Expand(input, unescape,
           Expanding([vars |-> storedVars, cachedEnv |-> <<>>], f,
                     [t |-> clock, ticks |-> <<>>, n |-> 0], <<>>,
                     Ctx("again", 0, 0))).result

\* The value of every name set by an assignment of the makefile is the
\* result of the one expansion of that assignment's right-hand side,
\* against the store and the file system as they were when pass 1 was at
\* that line.
StoredIsExpandedThen ==
    \A key \in DOMAIN vs.vars :
        vs.vars[key].source \in {sourceMakefileConditional, sourceMakefileUnconditional}
        => \E n \in OfKind("assign") :
              LET ex == expansions[n]
                  pLine == parser.lines[ex.ctx.at]
              IN  /\ pLine.originFile = vs.vars[key].originFile
                  /\ pLine.originLine = vs.vars[key].originLine
                  /\ Assignment(pLine.content).varName = key
                  /\ ex.input = Assignment(pLine.content).right
                  /\ ex.err = ""
                  /\ vs.vars[key].value = ex.result
                  /\ ex.result = ExpandedAgainst(ex.input, TRUE, ex.vars, ex.fs)

\* Every assignment line is expanded once, in pass 1: no line has two
\* expansions, and no expansion of an assignment follows one of a rule
\* header or of a recipe line.
ExpandedOnceInPassOne ==
    /\ \A n, m \in OfKind("assign") :
          expansions[n].ctx.at = expansions[m].ctx.at => n = m
    /\ \A n \in OfKind("assign") : \A m \in OfKind("header") \cup OfKind("recipe") : n < m
    /\ \A n \in OfKind("assign") : expansions[n].ctx.at <= parser.i
    /\ \A n \in EvalsOfKind("assign") :
          \E m \in OfKind("assign") :
              /\ expansions[m].ctx = evals[n].ctx
              /\ expansions[m].from <= n /\ n <= expansions[m].to
              /\ \A later \in EvalsOfKind("header") \cup EvalsOfKind("recipe") : n < later

\* A step of pass 1 on an assignment line changes the entry of the assigned
\* name at most; once the makefile is parsed no step changes an entry or
\* evaluates anything for an assignment.
OnlyTheAssignedNameChanges ==
    /\ \A key \in DOMAIN vs'.vars :
          (key \notin DOMAIN vs.vars \/ vs'.vars[key] # vs.vars[key])
          => /\ parser.phase = "pass1" /\ parser.i <= Len(parser.lines)
             /\ \/ /\ LineKind(parser.lines[parser.i].content) = "assignment"
                   /\ Assignment(parser.lines[parser.i].content).varName = key
                \/ LineKind(parser.lines[parser.i].content) = "load_env"
    /\ parser.phase = "parsed"
          => /\ vs'.vars = vs.vars
             /\ {n \in 1..Len(expansions') : expansions'[n].ctx.kind = "assign"}
                    = OfKind("assign")
             /\ {n \in 1..Len(evals') : evals'[n].ctx.kind = "assign"}
                    = EvalsOfKind("assign")

\* C12: eager expansion. The right-hand side of an assignment is expanded
\* exactly once, when pass 1 is at the assignment line, against the store
\* as it is then, and the result is what is stored; a $(shell ...) of an
\* assignment is run then and never while recipes execute; a later
\* assignment changes the entry of its own name only, and nothing that
\* happens after parsing (recipes changing the file system) changes a
\* stored value.
C12_EagerExpansion ==
    /\ [](StoredIsExpandedThen /\ ExpandedOnceInPassOne)
    /\ [][OnlyTheAssignedNameChanges]_vars

\* The build is over; V was assigned the output of `ls` through $(C), C was
\* assigned again afterwards, a recipe has changed what `ls` prints and has
\* run `ls` itself, and V still holds the listing of the start.
C12_Witness ==
    /\ Returned /\ status = "ok"
    /\ "V" \in DOMAIN vs.vars /\ "C" \in DOMAIN vs.vars
    /\ vs.vars["C"].value = "echo"
    /\ vs.vars["V"].value = TrimRight(Listing(start.fs, <<>>), {"\n"})
    /\ Listing(fs, <<>>) # Listing(start.fs, <<>>)
    /\ \E n \in EvalsOfKind("assign") : evals[n].how = "shell" /\ evals[n].command = "ls"
    /\ \E n \in EvalsOfKind("recipe") : evals[n].how = "shell" /\ evals[n].command = "ls"

\* A $( that no $ before it turns into text: the line holds a form to
\* evaluate (a recipe line is expanded with unescape = false).
RECURSIVE HasFormFrom(_, _)
HasFormFrom(s, i) ==
    IF i >= Len(s) THEN FALSE
    ELSE IF At(s, i) # "$" THEN HasFormFrom(s, i + 1)
    ELSE IF At(s, i + 1) = "$" THEN HasFormFrom(s, i + 2)
    ELSE At(s, i + 1) = "(" \/ HasFormFrom(s, i + 1)

HasForm(s) == HasFormFrom(s, 1)

RunsCommand(ev) == ev.how \in {"shell", "implicit"}

\* What running the command of an evaluation on the file system it found
\* prints, without the trailing newlines, and what it leaves behind.
PrintedNow(ev) == TrimRight(Sh(ev.fs, ev.env, ev.command, ev.now).out, {"\n", "\r"})
LeftBy(ev) == IF RunsCommand(ev) THEN Sh(ev.fs, ev.env, ev.command, ev.now).fs ELSE ev.fs

\* A step that executes a recipe line: the line is expanded on the file
\* system of that moment, after every source of the rule was resolved and
\* every earlier command of the recipe has exited with status 0; each form
\* of the line that runs a command runs it in that step, on the file system
\* the evaluations before it in the line have left, and what is put in
\* place of the form is what the command prints then.
RecipeFormsRunAtTheLine ==
    Len(expansions') > Len(expansions) /\ expansions'[Len(expansions')].ctx.kind = "recipe"
    => LET ex == expansions'[Len(expansions')]
       IN  /\ Len(expansions') = Len(expansions) + 1
           /\ status = "running" /\ stack # <<>> /\ Top.pc = "recipe"
           /\ ex.ctx = Ctx("recipe", Top.rule, Top.j)
           /\ ex.input = Command(TopRule.Recipe[Top.j])
           /\ ex.fs = fs
           /\ ex.from = Len(evals) + 1 /\ ex.to = Len(evals')
           /\ SubSeq(evals', 1, Len(evals)) = evals
           /\ HasForm(ex.input) => ex.to >= ex.from
           /\ \A k \in 1..Len(TopRule.Sources) :
                 \E n \in 1..Len(resolved) : resolved[n] = TopRule.Sources[k]
           /\ \A j \in 1..(Top.j - 1) :
                 TopRule.Recipe[j].op # "blank"
                 => \E n \in 1..Len(launched) :
                       /\ launched[n].rule = Top.rule /\ launched[n].line = j
                       /\ launched[n].exit = 0
           /\ \A n \in ex.from..ex.to :
                 /\ evals'[n].ctx = ex.ctx
                 /\ evals'[n].fs = IF n = ex.from THEN fs ELSE LeftBy(evals'[n - 1])
                 /\ RunsCommand(evals'[n])
                    => /\ evals'[n].exit = Sh(evals'[n].fs, evals'[n].env, evals'[n].command,
                                          evals'[n].now).exit
                       /\ evals'[n].value =
                              IF evals'[n].exit = 0 THEN PrintedNow(evals'[n]) ELSE ""

\* C13: a $(shell ...) or an implicit $(command) in a recipe line is run
\* whenever the line is executed, at that moment: after the recipes of the
\* rule's sources and the earlier lines of the recipe have completed. What
\* is substituted is what the command prints then, never the output of an
\* earlier evaluation of the same command string.
C13_RecipeShellIsFresh == [][RecipeFormsRunAtTheLine]_vars

\* `ls` was evaluated for an assignment and again for a recipe line, after
\* a command of a source's recipe had created a file: the two evaluations
\* of the same command string gave different text.
C13_Witness ==
    \E n \in EvalsOfKind("assign"), m \in EvalsOfKind("recipe") :
        /\ RunsCommand(evals[n]) /\ RunsCommand(evals[m])
        /\ evals[n].command = evals[m].command
        /\ evals[n].exit = 0 /\ evals[m].exit = 0
        /\ evals[n].value # evals[m].value
        /\ launched # <<>>

\* Line n of the joined input lies in the recipe of a rule whose header is
\* not indented: a header is above it and every line between is blank or
\* indented.
InRecipe(n) ==
    \E h \in 1..(n - 1) :
        /\ LineKind(parser.lines[h].content) = "rule"
        /\ ~Indented(parser.lines[h].content)
        /\ \A m \in (h + 1)..n :
              TrimSpace(parser.lines[m].content) = "" \/ Indented(parser.lines[m].content)

\* The assignments and load_env directives of the joined input.
Statements ==
    {n \in 1..Len(parser.lines) :
        /\ LineKind(parser.lines[n].content) \in {"assignment", "load_env"}
        /\ ~InRecipe(n)}

\* Pass 1 has applied the statement at line n.
Applied(n) ==
    /\ n < parser.i
    /\ LineKind(parser.lines[n].content) = "assignment"
       => \E m \in OfKind("assign") : expansions[m].ctx.at = n /\ expansions[m].err = ""

\* A step that expands a rule header is taken when every statement of the
\* input has been applied, and expands against the store as it is then.
HeadersExpandedAfterPassOne ==
    Len(expansions') > Len(expansions) /\ expansions'[Len(expansions')].ctx.kind = "header"
    => /\ \A n \in Statements : Applied(n)
       /\ \A m \in (Len(expansions) + 1)..Len(expansions') :
             /\ expansions'[m].ctx.kind = "header"
             /\ expansions'[m].ctx.at = parser.k
             /\ expansions'[m].vars = vs.vars

\* Every header was expanded against the variables as they are at the end,
\* and the targets and sources of a parsed rule are the words of its
\* header's sides expanded with those values.
HeadersUseFinalValues ==
    /\ \A n \in OfKind("header") : expansions[n].vars = vs.vars
    /\ \A n \in OfKind("header") :
          LET ex == expansions[n]
              sides == splitOnUnescaped(parser.rawRules[ex.ctx.at].definitionLine, ":")
          IN  /\ ex.input = sides[ex.ctx.sub]
              /\ ex.result = ExpandedAgainst(ex.input, TRUE, vs.vars, ex.fs)
              /\ ex.ctx.at <= Len(makefile.Rules) /\ ex.ctx.sub = 1
                 => makefile.Rules[ex.ctx.at].Targets = Paths(Fields(ex.result))
              /\ ex.ctx.at <= Len(makefile.Rules) /\ ex.ctx.sub = 2
                 => makefile.Rules[ex.ctx.at].Sources = Paths(Fields(ex.result))
    /\ \A r \in 1..Len(makefile.Rules) :
          \E n, m \in OfKind("header") :
              /\ expansions[n].ctx = Ctx("header", r, 1)
              /\ expansions[m].ctx = Ctx("header", r, 2)
    /\ parser.phase = "parsed" => Len(makefile.Rules) = Len(parser.rawRules)

\* C14: two-pass parsing. The targets and sources of a rule header are
\* expanded only after every assignment and load_env directive of the whole
\* pre-processed input has been applied, so a header is expanded with the
\* final value of each variable, wherever the rule stands relative to the
\* assignments.
C14_TwoPassParsing ==
    /\ []HeadersUseFinalValues
    /\ [][HeadersExpandedAfterPassOne]_vars

\* The makefile is parsed; a source of a rule comes from $(S), and S was
\* assigned on a line below the rule's header: the source is the value
\* assigned there.
C14_Witness ==
    /\ parser.phase = "parsed"
    /\ \E n \in OfKind("header"), m \in OfKind("assign") :
          LET raw == parser.rawRules[expansions[n].ctx.at]
              pLine == parser.lines[expansions[m].ctx.at]
          IN  /\ expansions[n].ctx.sub = 2
              /\ HasPrefix(TrimSpace(expansions[n].input), "$(S)")
              /\ Assignment(pLine.content).varName = "S"
              /\ pLine.originFile = raw.originFile
              /\ pLine.originLine > raw.originLine
              /\ vs.vars["S"].value = expansions[m].result
              /\ makefile.Rules[expansions[n].ctx.at].Sources[1]
                     = PathOf(expansions[m].result)

\* The file a line of text includes, "" when the line is no include
\* directive.
IncludeOf(text) ==
    LET trimmedLine == TrimSpace(StripComment(text).content)
    IN  IF HasPrefix(trimmedLine, "include ")
        THEN trimQuotes(TrimSpace(From(trimmedLine, 8)))
        ELSE ""

\* The files that come in through file g: g and what it includes, and so on
\* (no chain of includes is longer than the number of files).
RECURSIVE Through(_, _)
Through(G, n) ==
    IF n = 0 THEN G
    ELSE Through(G \cup (UNION {{IncludeOf(texts[g][l]) : l \in 1..Len(texts[g])} :
                                    g \in G \cap DOMAIN texts} \ {""}),
                 n - 1)

ComesThrough(g) == Through({g}, Cardinality(DOMAIN texts))

\* The file is taken in by one include directive at most.
ReadOnce(f) == Cardinality({q \in 1..Len(parser.calls) : parser.calls[q].path = f}) <= 1

\* The lines of a file keep their order, and what an include directive
\* brings in stands between the lines above and the lines below the
\* directive (for files that are taken in once: the lines of a file that
\* is included again stand at each of the directives); no assignment line
\* of a file that is read is lost.
IncludesInPlace ==
    /\ \A n, m \in 1..Len(parser.lines) :
          /\ parser.lines[n].originFile = parser.lines[m].originFile
          /\ ReadOnce(parser.lines[n].originFile)
          /\ parser.lines[n].originLine < parser.lines[m].originLine
          => n < m
    /\ \A f \in DOMAIN texts : \A l \in 1..Len(texts[f]) :
          LET g == IncludeOf(texts[f][l])
              brought == ComesThrough(g)
          IN  g # "" /\ f \notin brought /\ (\A h \in brought \cup {f} : ReadOnce(h))
              => \A n, m \in 1..Len(parser.lines) :
                    /\ parser.lines[n].originFile = f
                    /\ parser.lines[m].originFile \in brought
                    => /\ parser.lines[n].originLine < l => n < m
                       /\ parser.lines[n].originLine > l => m < n
    /\ parser.phase \in {"pass1", "parsed"}
       => \A f \in ComesThrough(RootFile) \cap DOMAIN texts : \A l \in 1..Len(texts[f]) :
             LineKind(StripComment(texts[f][l]).content) = "assignment"
             => \E n \in 1..Len(parser.lines) :
                   /\ parser.lines[n].originFile = f
                   /\ parser.lines[n].originLine = l

\* The assignments are applied in the order of the concatenated input.
AppliedInTextualOrder ==
    \A n, m \in OfKind("assign") :
        n < m => expansions[n].ctx.at < expansions[m].ctx.at

\* The lines of the `=` assignments to key that pass 1 has applied.
Definitions(key) ==
    {expansions[m].ctx.at : m \in
        {x \in OfKind("assign") :
            /\ expansions[x].err = ""
            /\ Assignment(parser.lines[expansions[x].ctx.at].content).op = "="
            /\ Assignment(parser.lines[expansions[x].ctx.at].content).varName = key}}

\* Last definition wins: a name that was assigned with `=` holds the value
\* of the last of its `=` assignments in the order of the concatenated
\* input, whichever file each of them stands in.
LastDefinitionWins ==
    \A key \in DOMAIN vs.vars :
        LET defs == Definitions(key)
            last == CHOOSE n \in defs : \A m \in defs : m <= n
        IN  defs # {}
            => /\ vs.vars[key].source = sourceMakefileUnconditional
               /\ vs.vars[key].originFile = parser.lines[last].originFile
               /\ vs.vars[key].originLine = parser.lines[last].originLine
               /\ \E m \in OfKind("assign") :
                     /\ expansions[m].ctx.at = last
                     /\ vs.vars[key].value = expansions[m].result

\* C15: assignments take effect in textual order over the concatenated
\* input. The lines of an included file are processed at the position of
\* the include directive, between the lines above and below it, so a name
\* assigned with `=` before an include and again in the included file holds
\* the included file's value (the last definition wins).
C15_IncludeInPlace == IncludesInPlace /\ AppliedInTextualOrder /\ LastDefinitionWins

\* T is assigned with `=` in the root file above an include directive and
\* again in the included file; lines of the root file below the directive
\* have been applied; T holds the value of the included file.
C15_Witness ==
    /\ parser.phase = "parsed"
    /\ "T" \in DOMAIN vs.vars
    /\ vs.vars["T"].originFile # RootFile
    /\ \E l \in 1..Len(texts[RootFile]) :
          /\ IncludeOf(texts[RootFile][l]) = vs.vars["T"].originFile
          /\ \E n, m \in Statements :
                /\ parser.lines[n].originFile = RootFile
                /\ parser.lines[n].originLine < l
                /\ Assignment(parser.lines[n].content).varName = "T"
                /\ Assignment(parser.lines[n].content).op = "="
                /\ parser.lines[m].originFile = RootFile
                /\ parser.lines[m].originLine > l
                /\ Applied(m)
                /\ \E x \in OfKind("assign") :
                      /\ expansions[x].ctx.at = n
                      /\ expansions[x].result # vs.vars["T"].value

\* The line of the joined input that is the header of raw rule r.
HeaderLine(r) ==
    CHOOSE h \in 1..Len(parser.lines) :
        /\ parser.lines[h].originFile = parser.rawRules[r].originFile
        /\ parser.lines[h].originLine = parser.rawRules[r].originLine

BlankLine(n) == TrimSpace(parser.lines[n].content) = ""

\* The contents of the lines of the joined input after line h and before
\* line end.
Between(h, end) == [n \in 1..(end - 1 - h) |-> parser.lines[h + n].content]

\* The first line after h that a given test holds of, or the line after the
\* last when there is none.
FirstAfter(h, Ends(_)) ==
    LET found == {n \in (h + 1)..Len(parser.lines) : Ends(n)}
    IN  IF found = {} THEN Len(parser.lines) + 1
        ELSE CHOOSE n \in found : \A m \in found : n <= m

EndsAtBlankOrUnindented(n) == BlankLine(n) \/ ~Indented(parser.lines[n].content)
EndsAtUnindented(n) == ~BlankLine(n) /\ ~Indented(parser.lines[n].content)

\* C16 as stated: the recipe of a rule is the run of consecutive indented
\* lines right after its header; a blank line or a non-indented line ends
\* it, so an indented line after a blank line is not part of the recipe.
C16_AsStated ==
    \A r \in 1..Len(parser.rawRules) :
        parser.rawRules[r].recipeLines
            = Between(HeaderLine(r), FirstAfter(HeaderLine(r), EndsAtBlankOrUnindented))

\* C16, amended: the recipe of a rule is every line after its header up to
\* the first line that is neither blank nor indented (or the end of the
\* input). A blank line does not end the recipe: it is kept in it, and an
\* indented line that follows it belongs to the recipe too. The blank lines
\* are passed over when the recipe is executed.
C16_RecipeRunsToUnindentedLine ==
    /\ \A r \in 1..Len(parser.rawRules) :
          parser.rawRules[r].recipeLines
              = Between(HeaderLine(r), FirstAfter(HeaderLine(r), EndsAtUnindented))
    /\ \A r \in 1..Len(makefile.Rules) :
          /\ Len(makefile.Rules[r].Recipe) = Len(parser.rawRules[r].recipeLines)
          /\ \A j \in 1..Len(makefile.Rules[r].Recipe) :
                makefile.Rules[r].Recipe[j].arg = parser.rawRules[r].recipeLines[j]
    /\ \A n \in 1..Len(launched) :
          TrimSpace(makefile.Rules[launched[n].rule].Recipe[launched[n].line].arg) # ""

\* A rule was parsed whose recipe holds a blank line and an indented line
\* after it, and the command of that line has been launched.
C16_Witness ==
    \E r \in 1..Len(makefile.Rules) : \E j \in 1..Len(makefile.Rules[r].Recipe) :
        /\ j > 2
        /\ TrimSpace(parser.rawRules[r].recipeLines[j - 1]) = ""
        /\ TrimSpace(parser.rawRules[r].recipeLines[j - 2]) # ""
        /\ Indented(parser.rawRules[r].recipeLines[j])
        /\ TrimSpace(parser.rawRules[r].recipeLines[j]) # ""
        /\ HeaderLine(r) + j < Len(parser.lines)
        /\ \E n \in 1..Len(launched) : launched[n].rule = r /\ launched[n].line = j

\* The text of body before its first space: what the expander takes for
\* the name of a function.
FunctionName(body) ==
    IF Index(body, " ") = 0 THEN body ELSE SubSeq(body, 1, Index(body, " ") - 1)

\* The first token of body, delimited by white space.
FirstToken(body) == IF Fields(body) = <<>> THEN "" ELSE Fields(body)[1]

\* The evaluations made within expansion n.
EvalsOf(n) == expansions[n].from..expansions[n].to

\* The fixed order in which an expanded body is dispatched, for the
\* evaluation ev made against the variables stored, when name is taken for
\* the name of its function.
DispatchedFrom(name, ev, stored) ==
    IF name \in unsupportedMakeFunctions
    THEN ev.how = "unsupported"
    ELSE IF HasPrefix(ev.body, "shell ")
    THEN /\ ev.how = "shell"
         /\ ev.command = TrimSpace(SubSeq(ev.body, 6, Len(ev.body)))
         /\ ev.exit = Sh(ev.fs, ev.env, ev.command, ev.now).exit
         /\ ev.exit = 0 => ev.value = PrintedNow(ev)
    ELSE IF ev.body \in DOMAIN stored
    THEN /\ ev.how = "variable"
         /\ ev.value = stored[ev.body].value
    ELSE /\ ev.how = "implicit"
         /\ ev.command = ev.body
         /\ ev.exit = Sh(ev.fs, ev.env, ev.command, ev.now).exit
         /\ ev.exit = 0 => ev.value = PrintedNow(ev)

DispatchedInOrder(ev, stored) == DispatchedFrom(FunctionName(ev.body), ev, stored)

\* C17 as stated: a $(BODY) form first has its body expanded and is then
\* dispatched in a fixed order: if the first token of the expanded body is
\* an unsupported function name, the expansion fails, even when a variable
\* with that name is defined; else if the body begins with `shell `, the
\* rest is run in a sub-shell; else if the whole body is the name of a
\* defined variable, the stored value is substituted as it is; otherwise
\* the body is run as an implicit shell command.
C17_AsStated ==
    \A n \in 1..Len(expansions) : \A m \in EvalsOf(n) :
        DispatchedFrom(FirstToken(evals[m].body), evals[m], expansions[n].vars)

\* C17, amended: a $(BODY) form is dispatched on its expanded body in a
\* fixed order: a body whose function name, which is the text before its
\* first space character (the whole body when it holds no space, nothing
\* when it begins with one), is an unsupported function fails, even when a
\* variable of that name is defined; else a body that begins with `shell `
\* has the rest run in a sub-shell; else a body that is the name of a
\* defined variable is replaced by the stored value as it is; any other
\* body is run as a command, also one whose first token is the name of an
\* unsupported function behind a space or in front of a tab. An expansion
\* fails exactly when one of its forms fails.
C17_DispatchOrder ==
    /\ \A m \in 1..Len(evals) :
          \E n \in 1..Len(expansions) : m \in EvalsOf(n)
    /\ \A n \in 1..Len(expansions) :
          /\ \A m \in EvalsOf(n) : DispatchedInOrder(evals[m], expansions[n].vars)
          /\ \A m \in EvalsOf(n) :
                /\ evals[m].how = "unsupported"
                   => expansions[n].err = "unsupported function" /\ m = expansions[n].to
                /\ evals[m].how \in {"shell", "implicit"} /\ evals[m].exit # 0
                   => expansions[n].err = "shell command failed" /\ m = expansions[n].to
          /\ expansions[n].err \in {"unsupported function", "shell command failed"}
             => expansions[n].to >= expansions[n].from

\* All four cases have occurred: $(dir) failed although a variable named
\* dir is defined; a `shell ` body and a plain command were run; a body
\* that named a variable was replaced by a value that itself holds a
\* $(...) form, which was put into the result as it is; and two bodies
\* whose first token is `if` were run as commands, one that begins with a
\* space and one with a tab behind the word.
C17_Witness ==
    /\ \E m \in 1..Len(evals) :
          /\ evals[m].how = "implicit" /\ evals[m].exit = 0
          /\ FirstToken(evals[m].body) \in unsupportedMakeFunctions
          /\ FunctionName(evals[m].body) = ""
    /\ \E m \in 1..Len(evals) :
          /\ evals[m].how = "implicit" /\ evals[m].exit = 0
          /\ FirstToken(evals[m].body) \in unsupportedMakeFunctions
          /\ FunctionName(evals[m].body) # ""
    /\ \E n \in 1..Len(expansions) : \E m \in EvalsOf(n) :
          /\ evals[m].how = "unsupported"
          /\ evals[m].body \in DOMAIN expansions[n].vars
    /\ \E m \in 1..Len(evals) : evals[m].how = "shell" /\ evals[m].exit = 0
    /\ \E m \in 1..Len(evals) : evals[m].how = "implicit" /\ evals[m].exit = 0
    /\ \E n \in 1..Len(expansions) : \E m \in EvalsOf(n) :
          /\ evals[m].how = "variable"
          /\ HasForm(evals[m].value)
          /\ HasPrefix(expansions[n].result, evals[m].value)

Launches == {n \in 1..Len(events) : events[n].kind = "launch"}
RecipeOf(n) == makefile.Rules[events[n].rule].Recipe

\* The commands of a recipe are launched one at a time, in declared order,
\* each after the one before it has exited with status 0; the exit of a
\* command follows its launch with nothing in between.
LaunchedInOrder ==
    /\ \A n \in Launches :
          /\ n < Len(events)
          /\ events[n + 1].kind = "exit"
          /\ events[n + 1].rule = events[n].rule /\ events[n + 1].line = events[n].line
    /\ \A n \in 1..Len(events) : events[n].kind = "exit" => n > 1 /\ (n - 1) \in Launches
    /\ \A n \in 1..Len(events) :
          events[n].kind = "exit" /\ events[n].exit # 0 => n = Len(events)
    /\ \A n \in Launches : \A j \in 1..(events[n].line - 1) :
          RecipeOf(n)[j].op # "blank"
          => \E m \in Launches :
                /\ m < n
                /\ events[m].rule = events[n].rule /\ events[m].line = j
                /\ events[m + 1].exit = 0
    /\ \A n, m \in Launches :
          events[n].rule = events[m].rule /\ events[n].line = events[m].line => n = m

\* A command whose line does not begin with '@' is echoed, as expanded,
\* right before it is launched; a command whose line begins with '@' (after
\* optional white space) is launched and not echoed; nothing else is
\* echoed, and a whitespace-only line gives rise to nothing.
EchoedBeforeLaunch ==
    /\ \A n \in Launches :
          LET raw == RecipeOf(n)[events[n].line].arg
          IN  /\ TrimSpace(raw) # ""
              /\ \E x \in OfKind("recipe") :
                    /\ expansions[x].ctx = Ctx("recipe", events[n].rule, events[n].line)
                    /\ expansions[x].err = ""
                    /\ events[n].text = expansions[x].result
              /\ IF HasPrefix(TrimSpace(raw), "@")
                 THEN \A m \in 1..Len(events) :
                         events[m].kind = "echo"
                         => ~(events[m].rule = events[n].rule
                                /\ events[m].line = events[n].line)
                 ELSE /\ n > 1
                      /\ events[n - 1] = [events[n] EXCEPT !.kind = "echo"]
    /\ \A n \in 1..Len(events) :
          events[n].kind = "echo"
          => /\ n < Len(events)
             /\ (n + 1) \in Launches
             /\ events[n + 1] = [events[n] EXCEPT !.kind = "launch"]

\* C18: the commands of a recipe are launched one at a time in declared
\* order, each only after the previous one exited with status 0; the
\* expanded command of a line without a leading '@' is echoed before the
\* command is launched; a line with a leading '@' (after optional white
\* space) is launched without being echoed; whitespace-only lines are
\* skipped.
C18_RecipeExecutionOrder == LaunchedInOrder /\ EchoedBeforeLaunch

\* A recipe has run up to a command that failed: its first command was
\* echoed, a whitespace-only line was passed over, an '@' line preceded by
\* white space was launched without echo, and the lines after the failed
\* command were never launched.
C18_Witness ==
    /\ Returned /\ status = "recipe failed"
    /\ Len(events) > 5
    /\ events[Len(events)].kind = "exit" /\ events[Len(events)].exit # 0
    /\ LET r == events[Len(events)].rule
           j == events[Len(events)].line
           recipe == makefile.Rules[r].Recipe
       IN  /\ j < Len(recipe)
           /\ \E k \in 1..(j - 1) : recipe[k].op = "blank"
           /\ \E k \in 1..(j - 1) :
                 /\ recipe[k].at /\ At(recipe[k].arg, 1) # "@"
                 /\ \E n \in Launches : events[n].rule = r /\ events[n].line = k
           /\ \E n \in 1..Len(events) :
                 events[n].kind = "echo" /\ events[n].rule = r /\ events[n].line = 1

\* ---------------------------------------------------------------------
\* Properties of the rule aggregate (checked under SpecMake)
\* ---------------------------------------------------------------------
\* The target words of the raw rule n, as pass 2 expanded them.
DeclaredTargets(n) ==
    LET S == {q \in OfKind("header") : expansions[q].ctx.at = n /\ expansions[q].ctx.sub = 1}
    IN  IF S = {} THEN <<>> ELSE Paths(Fields(expansions[CHOOSE q \in S : TRUE].result))

\* The rules that have T among their targets.
RulesFor(T) == {n \in 1..Len(makefile.Rules) : T \in Range(makefile.Rules[n].Targets)}

\* Rules holds one rule for each raw rule pass 2 has accepted, in the
\* order of the raw rules, that is of their headers in the text.
InDeclarationOrder ==
    /\ Len(makefile.Rules) <= Len(parser.rawRules)
    /\ parser.phase \in {"pass1", "parsed"} => Len(makefile.Rules) = parser.k - 1
    /\ \A n \in 1..Len(makefile.Rules) :
          /\ makefile.Rules[n].Targets = DeclaredTargets(n)
          /\ makefile.Rules[n].Recipe =
                [j \in 1..Len(parser.rawRules[n].recipeLines) |->
                    RecipeLine(parser.rawRules[n].recipeLines[j])]
    /\ \A n \in 1..(Len(parser.rawRules) - 1) :
          \E h1, h2 \in 1..Len(parser.lines) :
             /\ h1 < h2
             /\ TrimSpace(parser.lines[h1].content) = parser.rawRules[n].definitionLine
             /\ TrimSpace(parser.lines[h2].content) = parser.rawRules[n + 1].definitionLine

\* The target map has exactly the names that are a target of some rule,
\* and gives each the last rule declared for it.
LastRuleWins ==
    /\ DOMAIN makefile.RuleMap =
          UNION {Range(makefile.Rules[n].Targets) : n \in 1..Len(makefile.Rules)}
    /\ \A T \in DOMAIN makefile.RuleMap :
          /\ makefile.RuleMap[T] \in RulesFor(T)
          /\ \A n \in RulesFor(T) : n <= makefile.RuleMap[T]

\* C21: after any sequence of AddRule calls, Rules holds the rules in
\* declaration order; for every target name T that appears in any rule,
\* RuleMap[T] is the last-declared rule whose Targets contain T; every rule
\* in the aggregate has at least one target.
C21_LastRuleWins ==
    /\ InDeclarationOrder
    /\ LastRuleWins
    /\ \A n \in 1..Len(makefile.Rules) : Len(makefile.Rules[n].Targets) >= 1

\* A makefile is parsed in which a name is a target of three rules, the
\* first of them a rule with another target that keeps it.
C21_Witness ==
    /\ parser.phase = "parsed"
    /\ \E T \in DOMAIN makefile.RuleMap :
          /\ Cardinality(RulesFor(T)) = 3
          /\ \E n \in RulesFor(T) : \E U \in Range(makefile.Rules[n].Targets) :
                U # T /\ makefile.RuleMap[U] = n /\ n < makefile.RuleMap[T]

\* ---------------------------------------------------------------------
\* Properties of the include stack (checked under SpecMake)
\* ---------------------------------------------------------------------
\* At every call of processFile the include stack holds exactly the files
\* whose processing is going on.
StackIsTheChain ==
    \A n \in 1..Len(parser.calls) :
       parser.calls[n].includeStack = Range(parser.calls[n].chain)

\* A call is refused exactly when its file is being processed, and the
\* parse fails with a circular include exactly when a call was refused.
RefusedIffNested ==
    /\ \A n \in 1..Len(parser.calls) :
          parser.calls[n].refused <=> parser.calls[n].path \in Range(parser.calls[n].chain)
    /\ parser.phase # "start" =>
          ((parser.phase = "error" /\ parser.err = "circular include detected")
             <=> \E n \in 1..Len(parser.calls) : parser.calls[n].refused)

\* A file that was processed before and has returned is accepted again.
AcceptedAgain ==
    \A n1, n2 \in 1..Len(parser.calls) :
       (/\ n1 < n2
        /\ parser.calls[n1].path = parser.calls[n2].path
        /\ parser.calls[n1].path \notin Range(parser.calls[n2].chain))
          => ~parser.calls[n2].refused

\* C22: the include stack holds exactly the absolute paths of the files on
\* the current include chain; processFile aborts with a circular-include
\* error if and only if a file is included, directly or transitively, while
\* it is still being processed; a file is removed from the stack when its
\* processing returns, so including the same file twice through non-nested
\* directives is accepted, and the stack is empty when parsing ends.
C22_IncludeStack ==
    /\ StackIsTheChain
    /\ RefusedIffNested
    /\ AcceptedAgain
    /\ parser.includeStack = {}

\* One parse has taken the same file three times, once two files deep, and
\* gone on to its rules.
C22_Witness ==
    /\ parser.phase = "parsed"
    /\ \E n1, n2, n3 \in 1..Len(parser.calls) :
          /\ n1 < n2 /\ n2 < n3
          /\ parser.calls[n1].path = parser.calls[n2].path
          /\ parser.calls[n2].path = parser.calls[n3].path
          /\ Len(parser.calls[n2].chain) = 2
          /\ Len(parser.calls[n3].chain) = 1
    /\ Len(makefile.Rules) > 0

\* A parse has ended in a circular include found two files down.
CircularIncludeFound ==
    /\ parser.phase = "error" /\ parser.err = "circular include detected"
    /\ \E n \in 1..Len(parser.calls) :
          parser.calls[n].refused /\ Len(parser.calls[n].chain) = 3

\* ---------------------------------------------------------------------
\* Properties of escaping in recipes (checked under SpecMake)
\* ---------------------------------------------------------------------
\* Every `$` of s stands right behind a backslash that is not itself
\* behind a backslash (scanning from position i, isEscaped telling whether
\* the character at i is behind such a backslash).
RECURSIVE DollarsEscapedFrom(_, _, _)
DollarsEscapedFrom(s, i, isEscaped) ==
    IF i > Len(s) THEN TRUE
    ELSE IF isEscaped THEN DollarsEscapedFrom(s, i + 1, FALSE)
    ELSE IF At(s, i) = "\\" THEN DollarsEscapedFrom(s, i + 1, TRUE)
    ELSE At(s, i) # "$" /\ DollarsEscapedFrom(s, i + 1, FALSE)

DollarsEscaped(s) == Contains(s, "$") /\ DollarsEscapedFrom(s, 1, FALSE)

\* C23: a backslash protects the following character from interpretation
\* in every pass: when a recipe line is expanded (unescape = false) the
\* backslash stays in the output and the character after it is not
\* interpreted, so a recipe line whose every `$` is behind a backslash is
\* passed through as it is written, no variable is put in and no
\* sub-shell is run for it.
C23_AsStated ==
    \A n \in OfKind("recipe") :
        DollarsEscaped(expansions[n].input)
        => /\ expansions[n].err = ""
           /\ expansions[n].result = expansions[n].input
           /\ expansions[n].from > expansions[n].to

\* What the code does hold to: in a recipe line the backslashes of the
\* input all stay in the output (none is taken as an escape).
BackslashesStay ==
    \A n \in OfKind("recipe") :
        expansions[n].err = ""
        => Cardinality({q \in 1..Len(expansions[n].input) :
                           At(expansions[n].input, q) = "\\"})
             <= Cardinality({q \in 1..Len(expansions[n].result) :
                               At(expansions[n].result, q) = "\\"})

\* ---------------------------------------------------------------------
\* Properties of variable references (checked under SpecMake)
\* ---------------------------------------------------------------------
\* The value the assignment on line n writes refers to the variable name.
RefersTo(n, name) ==
    LET right == Assignment(parser.lines[n].content).right
    IN  \E q \in 1..Len(right) :
           \/ SubSeq(right, q, q + Len(name) + 2) = "$(" \o name \o ")"
           \/ /\ SubSeq(right, q, q + Len(name)) = "$" \o name
              /\ At(right, q + Len(name) + 1) \notin NameChars

AssignmentLines ==
    {n \in 1..Len(parser.lines) : LineKind(parser.lines[n].content) = "assignment"}

\* Two assignments of the makefile refer to each other's variable.
ReferInCircle ==
    \E n, m \in AssignmentLines :
       /\ n # m
       /\ RefersTo(n, Assignment(parser.lines[m].content).varName)
       /\ RefersTo(m, Assignment(parser.lines[n].content).varName)

\* C24: circular variable references are detected: an expansion that would
\* re-enter a variable name that is already being expanded fails with a
\* 'circular variable reference' fatal error; in particular a makefile
\* with the assignments `A=$(B)` and `B=$(A)` ends in that error.
C24_AsStated ==
    (parser.phase \in {"parsed", "error"} /\ ReferInCircle)
    => /\ parser.phase = "error"
       /\ \E n \in 1..Len(expansions) : expansions[n].err = "circular variable reference"

\* What the code does: no expansion ever ends in that error.
NeverCircularError ==
    \A n \in 1..Len(expansions) : expansions[n].err # "circular variable reference"

\* ---------------------------------------------------------------------
\* Properties of the exit status (checked under SpecMake)
\* ---------------------------------------------------------------------
\* C25: the process exit code is 0 when the build succeeds, 1 when the
\* build fails (dependency, expansion-at-build-time or recipe error), and 2
\* when parsing the makefile fails or when no target is given and the
\* makefile defines no rule.
C25_AsStated ==
    Exited =>
       ExitCode = (IF parser.phase = "error" \/ status = "no rules and no target" THEN 2
                   ELSE IF status = "ok" THEN 0
                   ELSE 1)

\* What the code does: failures of every kind end with status 1, success
\* with status 0.
EveryFailureExitsOne ==
    Exited => ExitCode = (IF Returned /\ status = "ok" THEN 0 ELSE 1)

\* ---------------------------------------------------------------------
\* Properties of indented lines (checked under SpecMake)
\* ---------------------------------------------------------------------
\* Line n of the joined input is not empty, begins with a space or tab and
\* is not part of the recipe of the rule before it.
Stray(n) ==
    /\ TrimSpace(parser.lines[n].content) # ""
    /\ Indented(parser.lines[n].content)
    /\ ~InRecipe(n)

\* C26: every non-empty line that begins with a space or tab and is not
\* part of the recipe of the immediately preceding rule makes parsing fail
\* with 'unexpected indented line, must follow a rule definition', also
\* when it contains an unescaped `=` or `:`; pass 1 never goes past such a
\* line, so it is never accepted as an assignment or as a rule header.
C26_AsStated ==
    \A n \in 1..Len(parser.lines) :
        Stray(n)
        => /\ parser.i <= n
           /\ parser.phase # "parsed"
           /\ (parser.phase = "error" /\ parser.i = n)
                 => parser.err = "unexpected indented line"

\* What the code does: pass 1 stops with that error at the first stray
\* line when it is neither a rule header, nor an assignment, nor a load_env
\* directive.
StrayCommandRefused ==
    \A n \in 1..Len(parser.lines) :
        (/\ Stray(n)
         /\ \A m \in 1..(n - 1) : ~Stray(m)
         /\ LineKind(parser.lines[n].content) \notin {"rule", "assignment", "load_env",
                                                        "multiple colons"})
        => /\ parser.i <= n
           /\ (parser.phase = "error" /\ parser.i = n)
                 => parser.err = "unexpected indented line"

\* ---------------------------------------------------------------------
\* Properties of the built and visiting sets (checked under SpecBuild)
\* ---------------------------------------------------------------------
\* The rule has been evaluated in this invocation: its recipe ran to the
\* end or its targets were found up to date.
Evaluated(r) == r \in Range(finished)

\* C27: at every point of a Build, each name in the built set is either a
\* name without a rule (marked when it was found on disk as a
\* non-directory) or a target whose rule, as the target map returns it, has
\* been evaluated in this invocation, also when the same target name
\* appears in several rules; no target is skipped as built while the rule
\* mapped to it was never evaluated.
C27_AsStated ==
    \A t \in built :
        t \in DOMAIN makefile.RuleMap => Evaluated(makefile.RuleMap[t])

\* What the code does: a name with a rule is in the built set when some
\* rule that has it among its targets has been evaluated.
BuiltBySomeRule ==
    \A t \in built :
        t \in DOMAIN makefile.RuleMap
        => \E r \in Range(finished) : t \in Range(makefile.Rules[r].Targets)

\* The names of the calls of buildRecursive that are on the recursion
\* stack and have passed the visiting test (a frame at "enter" stands for a
\* call that is about to make it).
ActiveTargets == {stack[n].target : n \in {q \in 1..Len(stack) : stack[q].pc # "enter"}}

\* C29: at every point of a Build the visiting set equals the set of
\* target names of the buildRecursive calls that are currently active (on
\* the recursion stack); a name is removed when its call returns, by
\* success or by error, so the visiting set is empty whenever Build
\* returns.
C29_VisitingIsTheStack ==
    /\ visiting = ActiveTargets
    /\ stack = <<>> => visiting = {}

\* A Build three calls deep has failed and returned: every name that was
\* in the visiting set is out of it again.
C29_Witness ==
    /\ Returned /\ status \in Errors
    /\ Cardinality(failSnap.active) >= 3
    /\ visiting = {}

\* ---------------------------------------------------------------------
\* Properties of the memoized environment (checked under SpecStore)
\* ---------------------------------------------------------------------
\* The names the store holds at a tier other than ShellEnv.
OwnNames == {k \in DOMAIN vs.vars : vs.vars[k].source # sourceShellEnv}

\* The process environment overridden by the stored value of every name
\* that is not of tier ShellEnv.
OverriddenEnvironment ==
    [k \in DOMAIN osEnviron \cup OwnNames |->
        IF k \in OwnNames THEN vs.vars[k].value ELSE osEnviron[k]]

\* What a call of getEnvironment returns now is made of the current values.
EnvironmentIsCurrent == getEnvironment(vs).env = OverriddenEnvironment

\* A step that is no Set leaves what getEnvironment returns as it was.
SameListBetweenSets ==
    lineNo' = lineNo => getEnvironment(vs').env = getEnvironment(vs).env

\* C28: the memoized sub-process environment is always coherent with the
\* store: after any interleaving of Set and getEnvironment calls,
\* getEnvironment returns the process environment overridden by the current
\* stored value of every variable that is not of tier ShellEnv, never a
\* list computed before a later Set; between two Sets repeated calls return
\* the same list.
C28_EnvironmentCoherent == []EnvironmentIsCurrent /\ [][SameListBetweenSets]_vars

\* The list is memoized after Sets that took a name of the process
\* environment over with another value and added a name of the makefile.
C28_Witness ==
    /\ vs.cachedEnv # <<>>
    /\ lineNo >= 2
    /\ \E k \in DOMAIN osEnviron : vs.cachedEnv[1][k] # osEnviron[k]
    /\ \E k \in DOMAIN vs.cachedEnv[1] : k \notin DOMAIN osEnviron

\* ---------------------------------------------------------------------
\* Termination of Build (checked under SpecBuildFair)
\* ---------------------------------------------------------------------
\* Along the recursion stack no name is entered twice: a second call for a
\* name whose call is active is the innermost one, and it has not passed
\* the visiting test.
NoNameEnteredTwice ==
    \A m, n \in 1..Len(stack) :
        (m < n /\ stack[m].target = stack[n].target)
        => n = Len(stack) /\ stack[n].pc = "enter"

\* The recursion is no deeper than the names of the makefile, and one call
\* more that is about to be refused.
DepthBounded == Len(stack) <= Cardinality(Mentioned(makefile.Rules)) + 1

\* C30 as stated: for every finite rule map, every requested target and
\* every filesystem state, and assuming each launched shell command
\* terminates, Build terminates: the recursion always ends either with
\* success or with one of the errors (circular dependency, don't know how
\* to make target, missing dependency, recipe failed), and along any
\* recursion path no target name is entered twice.
C30_AsStated ==
    /\ [](NoNameEnteredTwice /\ DepthBounded)
    /\ (status = "running")
          ~> (/\ stack = <<>>
              /\ status \in {"ok", "circular dependency", "don't know how to make",
                             "missing dependency", "recipe failed"})

\* C30, amended: under the same assumptions Build terminates, and the
\* recursion always ends either with success or with one of the errors
\* circular dependency, don't know how to make target, missing dependency,
\* recipe failed, or with the error of an os.Stat that fails for another
\* reason than a missing file (failed to stat target in the freshness
\* check, or the error of the stat of a source); along any recursion path
\* no target name is entered twice.
C30_BuildTerminates ==
    /\ [](NoNameEnteredTwice /\ DepthBounded)
    /\ (status = "running")
          ~> (/\ stack = <<>>
              /\ status \in {"ok", "circular dependency", "don't know how to make",
                             "missing dependency", "recipe failed",
                             "stat target", "stat source"})

\* A Build has returned with a circular dependency that it met three calls
\* down.
C30_Witness ==
    /\ Returned
    /\ status = "circular dependency"
    /\ Cardinality(failSnap.active) >= 2
====
